---------------------------- MODULE Spec2Model ----------------------------
(***************************************************************************)
(* Parking-lot application: the REST data service (server/server.js), the  *)
(* browser client's vehicle entry/exit handlers (ParkingContext,           *)
(* WalkInClients), the fee calculator and the barcode generator.           *)
(*                                                                         *)
(* Times are millisecond epoch values.  A JavaScript `undefined`/`null`    *)
(* or an SQL NULL is Undef in a numeric position and NoStr in a string     *)
(* position.  Strings the code inspects character by character (plate      *)
(* numbers, barcodes) are sequences of one-character strings.              *)
(*                                                                         *)
(* Also modelled: the login, the page reload with loadData, and the        *)
(* Settings tab's auto-sync and auto-restore loops.  Not modelled: the     *)
(* gating of the pages on isAuthenticated; every operator action is taken  *)
(* on a page that is logged in.                                            *)
(***************************************************************************)
EXTENDS Integers, Sequences, FiniteSets, TLC

VARIABLES
    now,              \* the wall clock, Date.now()
    store,            \* the server's four tables
    txn,              \* the open transaction of the server's one connection
    bk,               \* the POST /api/backup request the server is handling
    interleave,       \* whether other requests run between a backup's statements
    vehicles,         \* the client's React state `vehicles`
    settings,         \* the client's React state `settings`
    ls,               \* the client's localStorage
    tasks,            \* the client's async handlers suspended at an await
    exitReceiptData,  \* the client's pending exit receipt
    toast,            \* the last notification shown to the operator
    ops,              \* operator actions so far
    apiCalls,         \* direct REST requests so far
    apiResp,          \* the last response to a direct REST request
    feeIn, feeOut,    \* calculateParkingFee: arguments and result
    bcIn, bcOut,      \* generateBarcode: two argument pairs and their results
    page,             \* the loaded page: active tab, toggle state, interval timers
    dialog,           \* the operator's answers to the last window.confirm/prompt
    loginIn, loginOut,\* a login attempt and the responses it received
    dailyStats,       \* the client's React state `dailyStats`
    permanentClients  \* the client's React state `permanentClients`

clientVars == <<vehicles, settings, ls, tasks, exitReceiptData, toast, ops>>
serverVars == <<store, txn, bk>>
calcVars   == <<feeIn, feeOut, bcIn, bcOut>>
loginVars  == <<loginIn, loginOut>>
pageVars   == <<page, dialog>>
extVars    == <<loginVars, pageVars>>
listVars   == <<dailyStats, permanentClients>>
vars == <<now, store, txn, bk, interleave, vehicles, settings, ls, tasks,
          exitReceiptData, toast, ops, apiCalls, apiResp,
          feeIn, feeOut, bcIn, bcOut, page, dialog, loginIn, loginOut,
          dailyStats, permanentClients>>

\* The value of an absent numeric field (undefined, null, SQL NULL); every time,
\* identifier and fee of the program is >= 0.
Undef == 0 - 1
\* The value of an absent string field.
NoStr == "undefined"
\* The value of an absent plate-number field (plate numbers are sequences).
NoPlate == <<NoStr>>

(***************************************************************************)
(* Bounds of the model.                                                    *)
(***************************************************************************)
MaxPlateLen == 2

(***************************************************************************)
(* utils/calculations.ts                                                   *)
(***************************************************************************)
MsPerHour == 3600000

\* Math.floor(ms / (1000 * 60 * 60)): the mutant of CeilHours.
FloorHours(ms) == ms \div MsPerHour

\* Math.ceil(ms / (1000 * 60 * 60)), for negative ms too (rounds toward +infinity).
CeilHours(ms) == -((-ms) \div MsPerHour)

\* calculateParkingFee without its base-hours branch.
FeeWithoutBaseBranch(entryTime, exitTime, vehicleType, pricing) ==
    LET hoursDiff == CeilHours(exitTime - entryTime)
        vehiclePricing == pricing[vehicleType]
    IN  vehiclePricing.baseFee
          + (hoursDiff - vehiclePricing.baseHours) * vehiclePricing.extraHourFee

calculateParkingFee(entryTime, exitTime, vehicleType, pricing) ==
    LET hoursDiff == CeilHours(exitTime - entryTime)
        vehiclePricing == pricing[vehicleType]
    IN  IF hoursDiff <= vehiclePricing.baseHours
        THEN vehiclePricing.baseFee
        ELSE LET extraHours == hoursDiff - vehiclePricing.baseHours
             IN  vehiclePricing.baseFee + extraHours * vehiclePricing.extraHourFee

\* String.prototype.toUpperCase on the model's alphabet.
UpperChar(c) == CASE c = "a" -> "A"
                  [] c = "b" -> "B"
                  [] OTHER   -> c

LowerChar(c) == CASE c = "A" -> "a"
                  [] c = "B" -> "b"
                  [] OTHER   -> c

toUpperCase(s) == [i \in 1..Len(s) |-> UpperChar(s[i])]
toLowerCase(s) == [i \in 1..Len(s) |-> LowerChar(s[i])]

IsSpace(c) == c = " "

\* s.replace(/\s+/g, '')
RECURSIVE RemoveSpaces(_)
RemoveSpaces(s) ==
    IF s = <<>> THEN <<>>
    ELSE IF IsSpace(Head(s)) THEN RemoveSpaces(Tail(s))
         ELSE <<Head(s)>> \o RemoveSpaces(Tail(s))

\* s.trim()
RECURSIVE TrimLeft(_)
TrimLeft(s) == IF s # <<>> /\ IsSpace(Head(s)) THEN TrimLeft(Tail(s)) ELSE s

RECURSIVE TrimRight(_)
TrimRight(s) ==
    IF s # <<>> /\ IsSpace(s[Len(s)]) THEN TrimRight(SubSeq(s, 1, Len(s) - 1)) ELSE s

trim(s) == TrimRight(TrimLeft(s))

Digit(d) == CASE d = 0 -> "0" [] d = 1 -> "1" [] d = 2 -> "2" [] d = 3 -> "3"
              [] d = 4 -> "4" [] d = 5 -> "5" [] d = 6 -> "6" [] d = 7 -> "7"
              [] d = 8 -> "8" [] d = 9 -> "9"

\* Number.prototype.toString of a non-negative integer (the template literal's
\* rendering of entryTime.getTime()).
RECURSIVE NumberToString(_)
NumberToString(n) ==
    IF n < 10 THEN <<Digit(n)>> ELSE NumberToString(n \div 10) \o <<Digit(n % 10)>>

\* generateBarcode without the "-" between plate and timestamp.
BarcodeWithoutSeparator(vehicleNumber, entryTime) ==
    toUpperCase(RemoveSpaces(vehicleNumber)) \o NumberToString(entryTime)

generateBarcode(vehicleNumber, entryTime) ==
    toUpperCase(RemoveSpaces(vehicleNumber)) \o <<"-">> \o NumberToString(entryTime)

(***************************************************************************)
(* The fee calculator on its own: inputs drawn at Init, one ComputeFee.    *)
(***************************************************************************)
VehicleTypes == {"car", "bike", "rickshaw"}

\* The server's default pricing (the client's pricing after it loads settings).
ServerPricing ==
    [car      |-> [baseHours |-> 2, baseFee |-> 50, extraHourFee |-> 25],
     bike     |-> [baseHours |-> 2, baseFee |-> 20, extraHourFee |-> 10],
     rickshaw |-> [baseHours |-> 2, baseFee |-> 30, extraHourFee |-> 15]]

\* getDefaultSettings().pricing
ClientPricing ==
    [car      |-> [baseHours |-> 10, baseFee |-> 100, extraHourFee |-> 10],
     bike     |-> [baseHours |-> 10, baseFee |-> 50,  extraHourFee |-> 5],
     rickshaw |-> [baseHours |-> 10, baseFee |-> 100, extraHourFee |-> 10]]

\* Tables the admin form can produce: each field is parseInt(input) || 0.
AdminPricing ==
    [car      |-> [baseHours |-> 0,  baseFee |-> 40, extraHourFee |-> 7],
     bike     |-> [baseHours |-> -1, baseFee |-> 0,  extraHourFee |-> 3],
     rickshaw |-> [baseHours |-> 1,  baseFee |-> 10, extraHourFee |-> 0]]

PricingTables == {ServerPricing, ClientPricing, AdminPricing}

Minute == 60 * 1000
NineOClock == 9 * MsPerHour

FeeEntryTimes == {2 * MsPerHour, NineOClock}
FeeElapsed ==
    {-MsPerHour - 1, -MsPerHour, -1, 0, 1, Minute, MsPerHour - 1, MsPerHour,
     MsPerHour + 1, 90 * Minute, 2 * MsPerHour - 1, 2 * MsPerHour,
     2 * MsPerHour + 1, 2 * MsPerHour + Minute, 3 * MsPerHour,
     3 * MsPerHour + 1, 10 * MsPerHour, 10 * MsPerHour + 1, 12 * MsPerHour}

NoFeeIn == [entryTime |-> 0, exitTime |-> 0, vehicleType |-> "car",
            pricing |-> ServerPricing]
NoBcIn  == [plate1 |-> <<>>, time1 |-> 0, plate2 |-> <<>>, time2 |-> 0]

ComputeFee ==
    /\ feeOut = <<>>
    /\ feeOut' = <<calculateParkingFee(feeIn.entryTime, feeIn.exitTime,
                                       feeIn.vehicleType, feeIn.pricing)>>
    /\ UNCHANGED <<now, store, txn, bk, interleave, vehicles, settings, ls, tasks,
                   exitReceiptData, toast, ops, apiCalls, apiResp, feeIn, bcIn, bcOut, extVars, listVars>>

(***************************************************************************)
(* The barcode generator on its own: two (plate, time) pairs drawn at Init.*)
(***************************************************************************)
PlateChars == {"a", "A", " ", "1", "-"}

RECURSIVE SeqsUpTo(_, _)
SeqsUpTo(S, n) ==
    IF n = 0 THEN {<<>>}
    ELSE LET shorter == SeqsUpTo(S, n - 1)
         IN  shorter \cup {Append(s, c) : s \in shorter, c \in S}

BarcodePlates == SeqsUpTo(PlateChars, MaxPlateLen)
BarcodeTimes  == {0, 1, 11, 12}

GenerateBarcodes ==
    /\ bcOut = <<>>
    /\ bcOut' = <<generateBarcode(bcIn.plate1, bcIn.time1),
                  generateBarcode(bcIn.plate2, bcIn.time2)>>
    /\ UNCHANGED <<now, store, txn, bk, interleave, vehicles, settings, ls, tasks,
                   exitReceiptData, toast, ops, apiCalls, apiResp, feeIn, feeOut, bcIn, extVars, listVars>>

(***************************************************************************)
(* server/server.js: the store.                                            *)
(***************************************************************************)
\* defaultSettings, as initializeDatabase stores it.
DefaultSettings ==
    [defined |-> TRUE, siteName |-> "Park Master Pro", pricing |-> ServerPricing,
     username |-> "admin", password |-> "admin123", viewMode |-> "grid"]

NoPricing ==
    [t \in VehicleTypes |-> [baseHours |-> Undef, baseFee |-> Undef, extraHourFee |-> Undef]]

\* The object {} as a settings value.
EmptySettings ==
    [defined |-> TRUE, siteName |-> NoStr, pricing |-> NoPricing,
     username |-> NoStr, password |-> NoStr, viewMode |-> NoStr]

\* `undefined` as a settings value (the body has no settings member).
UndefinedSettings == [EmptySettings EXCEPT !.defined = FALSE]

\* The tables after initializeDatabase on a fresh database file.
InitStore ==
    [vehicles |-> <<>>, permanent_clients |-> <<>>, daily_stats |-> <<>>,
     settings |-> DefaultSettings]

NoTxn == [active |-> FALSE, snapshot |-> InitStore]

\* A JavaScript vehicle object: the client's fields (number, type) and the
\* server's columns (vehicleNumber, vehicleType) side by side.
JsVehicle(id, number, type, vehicleNumber, vehicleType, entryTime, exitTime, fee) ==
    [id |-> id, number |-> number, type |-> type,
     vehicleNumber |-> vehicleNumber, vehicleType |-> vehicleType,
     entryTime |-> entryTime, exitTime |-> exitTime, fee |-> fee]

\* The six bound parameters of INSERT INTO vehicles VALUES (?,?,?,?,?,?).
VehicleRow(v) ==
    [id |-> v.id, vehicleNumber |-> v.vehicleNumber, vehicleType |-> v.vehicleType,
     entryTime |-> v.entryTime, exitTime |-> v.exitTime, fee |-> v.fee]

\* A row of SELECT * FROM vehicles as the JSON object the client receives.
RowAsJson(r) ==
    JsVehicle(r.id, NoPlate, NoStr, r.vehicleNumber, r.vehicleType,
              r.entryTime, r.exitTime, r.fee)

IdTaken(table, id) == id # Undef /\ \E i \in 1..Len(table) : table[i].id = id

\* CREATE TABLE vehicles: id TEXT PRIMARY KEY, three NOT NULL columns.
VehicleRowOk(table, r) ==
    /\ r.vehicleNumber # NoPlate
    /\ r.vehicleType # NoStr
    /\ r.entryTime # Undef
    /\ ~IdTaken(table, r.id)

\* CREATE TABLE permanent_clients
ClientRowOk(table, r) ==
    /\ r.name # NoStr
    /\ r.vehicleNumber # NoPlate
    /\ r.contact # NoStr
    /\ r.paymentStatus # NoStr
    /\ r.entryTime # Undef
    /\ ~IdTaken(table, r.id)

\* CREATE TABLE daily_stats: date TEXT PRIMARY KEY, two NOT NULL columns.
StatRowOk(table, r) ==
    /\ r.totalVehicles # Undef
    /\ r.totalRevenue # Undef
    /\ ~(r.date # Undef /\ \E i \in 1..Len(table) : table[i].date = r.date)

RowOk(kind, table, r) ==
    CASE kind = "vehicles"          -> VehicleRowOk(table, r)
      [] kind = "permanent_clients" -> ClientRowOk(table, r)
      [] kind = "daily_stats"       -> StatRowOk(table, r)

\* The bound parameters of INSERT INTO daily_stats VALUES (?,?,?).
StatRow(s) == [date |-> s.date, totalVehicles |-> s.totalVehicles,
               totalRevenue |-> s.totalRevenue]

ToRow(kind, item) ==
    CASE kind = "vehicles"          -> VehicleRow(item)
      [] kind = "permanent_clients" -> item
      [] kind = "daily_stats"       -> StatRow(item)

\* for (const x of items) await db.run('INSERT INTO <kind> VALUES (...)'):
\* the table after the loop, and whether every statement succeeded.
RECURSIVE InsertEach(_, _, _)
InsertEach(kind, table, items) ==
    IF items = <<>> THEN [ok |-> TRUE, table |-> table]
    ELSE IF RowOk(kind, table, ToRow(kind, Head(items)))
         THEN InsertEach(kind, Append(table, ToRow(kind, Head(items))), Tail(items))
         ELSE [ok |-> FALSE, table |-> table]

\* A collection member of a request body: an array, or not iterable (absent).
Coll(items) == [iterable |-> TRUE, items |-> items]
MissingColl == [iterable |-> FALSE, items |-> <<>>]

(***************************************************************************)
(* server/server.js: POST /api/vehicles, PUT /api/vehicles/:id/exit,       *)
(* POST /api/daily-stats.  Each returns the response and the store after.  *)
(***************************************************************************)
PostVehicle(st, body, t) ==
    LET newVehicle == [body EXCEPT !.id = t, !.entryTime = t]
        row == [VehicleRow(newVehicle) EXCEPT !.exitTime = Undef, !.fee = Undef]
    IN  IF VehicleRowOk(st.vehicles, row)
        THEN [status |-> 200, json |-> newVehicle,
              store |-> [st EXCEPT !.vehicles = Append(@, row)]]
        ELSE [status |-> 500, json |-> newVehicle, store |-> st]

\* UPDATE vehicles SET exitTime = ?, fee = ? WHERE id = ?; 404 when no row changed.
PutExit(st, id, fee, t) ==
    LET hit == {i \in 1..Len(st.vehicles) : st.vehicles[i].id = id}
    IN  IF id = Undef \/ hit = {}
        THEN [status |-> 404, store |-> st]
        ELSE [status |-> 200,
              store |-> [st EXCEPT !.vehicles =
                           [i \in 1..Len(@) |->
                              IF i \in hit THEN [@[i] EXCEPT !.exitTime = t, !.fee = fee]
                              ELSE @[i]]]]

\* The four columns PUT /api/permanent-clients/:id sets.
ClientUpdate(name, vehicleNumber, contact, paymentStatus) ==
    [name |-> name, vehicleNumber |-> vehicleNumber, contact |-> contact,
     paymentStatus |-> paymentStatus]

UpdatedClient(c, body) ==
    [c EXCEPT !.name = body.name, !.vehicleNumber = body.vehicleNumber,
              !.contact = body.contact, !.paymentStatus = body.paymentStatus]

\* A PUT that creates the record it does not find (sensitivity variant).
PutClientUpsert(st, id, body) ==
    [status |-> 200,
     store |-> [st EXCEPT !.permanent_clients =
                  Append(@, [id |-> id, name |-> body.name,
                             vehicleNumber |-> body.vehicleNumber,
                             contact |-> body.contact,
                             paymentStatus |-> body.paymentStatus, entryTime |-> 0])]]

\* UPDATE permanent_clients SET name = ?, vehicleNumber = ?, contact = ?,
\* paymentStatus = ? WHERE id = ?: 404 when no row changed, 500 when a row
\* matches and a NOT NULL column would become NULL.
PutClient(st, id, body) ==
    LET hit == {i \in 1..Len(st.permanent_clients) : st.permanent_clients[i].id = id}
    IN  IF id = Undef \/ hit = {} THEN [status |-> 404, store |-> st]
        ELSE IF \/ body.name = NoStr \/ body.vehicleNumber = NoPlate
                \/ body.contact = NoStr \/ body.paymentStatus = NoStr
             THEN [status |-> 500, store |-> st]
        ELSE [status |-> 200,
              store |-> [st EXCEPT !.permanent_clients =
                           [i \in 1..Len(@) |->
                              IF i \in hit THEN UpdatedClient(@[i], body) ELSE @[i]]]]

\* DELETE FROM permanent_clients WHERE id = ?; 404 when no row changed.
DeleteClient(st, id) ==
    LET hit == {i \in 1..Len(st.permanent_clients) : st.permanent_clients[i].id = id}
    IN  IF id = Undef \/ hit = {} THEN [status |-> 404, store |-> st]
        ELSE [status |-> 200,
              store |-> [st EXCEPT !.permanent_clients =
                           SelectSeq(@, LAMBDA c : c.id # id)]]

\* INSERT INTO daily_stats ... ON CONFLICT(date) DO UPDATE ...
PostDailyStats(st, body) ==
    LET row == StatRow(body) IN
    IF row.totalVehicles = Undef \/ row.totalRevenue = Undef
    THEN [status |-> 500, store |-> st]
    ELSE LET hit == {i \in 1..Len(st.daily_stats) :
                        row.date # Undef /\ st.daily_stats[i].date = row.date}
         IN  [status |-> 200,
              store |-> [st EXCEPT !.daily_stats =
                           IF hit = {} THEN Append(@, row)
                           ELSE [i \in 1..Len(@) |-> IF i \in hit THEN row ELSE @[i]]]]

(***************************************************************************)
(* server/server.js: POST /api/backup, statement by statement.             *)
(***************************************************************************)
\* BEGIN TRANSACTION on the connection: fails inside an open transaction.
BeginOk(tx) == ~tx.active

\* A backup handler without its three DELETE statements (sensitivity variant).
DeleteNothing(st) == st

\* DELETE FROM vehicles; DELETE FROM permanent_clients; DELETE FROM daily_stats
DeleteAll(st) ==
    [st EXCEPT !.vehicles = <<>>, !.permanent_clients = <<>>, !.daily_stats = <<>>]

\* The three insert loops and the settings UPDATE: the store reached, and
\* whether any statement (or the iteration of a missing collection) threw.
InsertSnapshot(st, body) ==
    IF ~body.vehicles.iterable THEN [ok |-> FALSE, store |-> st] ELSE
    LET v == InsertEach("vehicles", st.vehicles, body.vehicles.items)
        s1 == [st EXCEPT !.vehicles = v.table]
    IN  IF ~v.ok \/ ~body.permanentClients.iterable THEN [ok |-> FALSE, store |-> s1] ELSE
    LET c == InsertEach("permanent_clients", s1.permanent_clients,
                        body.permanentClients.items)
        s2 == [s1 EXCEPT !.permanent_clients = c.table]
    IN  IF ~c.ok \/ ~body.dailyStats.iterable THEN [ok |-> FALSE, store |-> s2] ELSE
    LET d == InsertEach("daily_stats", s2.daily_stats, body.dailyStats.items)
        s3 == [s2 EXCEPT !.daily_stats = d.table]
    IN  IF ~d.ok THEN [ok |-> FALSE, store |-> s3]
        \* JSON.stringify(undefined) is undefined: value TEXT NOT NULL fails.
        ELSE IF ~body.settings.defined THEN [ok |-> FALSE, store |-> s3]
        ELSE [ok |-> TRUE, store |-> [s3 EXCEPT !.settings = body.settings]]

\* A catch block that answers 500 without ROLLBACK (sensitivity variant).
RollbackKeepsChanges(st, tx) == st

\* ROLLBACK: the store is again what it was at BEGIN.
Rollback(st, tx) == IF tx.active THEN tx.snapshot ELSE st

(***************************************************************************)
(* Client: ParkingContext and WalkInClients.                               *)
(***************************************************************************)
MsPerDay == 24 * MsPerHour

\* new Date(t).toDateString(), as a day number.
DayOf(t) == t \div MsPerDay

NoVehicle == JsVehicle(Undef, NoPlate, NoStr, NoPlate, NoStr, Undef, Undef, Undef)

\* A DailyStats object; totalRevenue is the member the server reads.
JsStat(date, totalCars, totalBikes, totalRickshaws, totalVehicles, totalIncome, totalRevenue) ==
    [date |-> date, totalCars |-> totalCars, totalBikes |-> totalBikes,
     totalRickshaws |-> totalRickshaws, totalVehicles |-> totalVehicles,
     totalIncome |-> totalIncome, totalRevenue |-> totalRevenue]

\* An array body: destructuring it yields undefined for every member.
ArrayBody == JsStat(Undef, Undef, Undef, Undef, Undef, Undef, Undef)

RECURSIVE SumFees(_)
SumFees(vs) ==
    IF vs = <<>> THEN 0
    ELSE (IF Head(vs).fee = Undef THEN 0 ELSE Head(vs).fee) + SumFees(Tail(vs))

\* The dates of a set, newest first.
RECURSIVE SortDesc(_)
SortDesc(S) ==
    IF S = {} THEN <<>>
    ELSE LET m == CHOOSE x \in S : \A y \in S : y <= x
         IN  <<m>> \o SortDesc(S \ {m})

CountType(vs, type) == Cardinality({i \in 1..Len(vs) : vs[i].type = type})

rebuildAllDailyStats(allVehicles) ==
    LET n == Len(allVehicles)
        allDates == {DayOf(allVehicles[i].entryTime) : i \in 1..n}
                    \cup {DayOf(allVehicles[i].exitTime) :
                            i \in {j \in 1..n : allVehicles[j].exitTime # Undef}}
        entered(d) == SelectSeq(allVehicles, LAMBDA v : DayOf(v.entryTime) = d)
        exited(d) == SelectSeq(allVehicles,
                        LAMBDA v : v.exitTime # Undef /\ DayOf(v.exitTime) = d)
        dates == SortDesc(allDates)
    IN  [k \in 1..Len(dates) |->
            JsStat(dates[k], CountType(entered(dates[k]), "car"),
                   CountType(entered(dates[k]), "bike"),
                   CountType(entered(dates[k]), "rickshaw"),
                   Len(entered(dates[k])), SumFees(exited(dates[k])), Undef)]

\* vehicles.some(v => v.number.trim().toLowerCase() === plate && !v.exitTime):
\* "throw" when a record without a number member is reached first.
RECURSIVE alreadyParked(_, _)
alreadyParked(vs, plate) ==
    IF vs = <<>> THEN "no"
    ELSE IF Head(vs).number = NoPlate THEN "throw"
    ELSE IF toLowerCase(trim(Head(vs).number)) = plate /\ Head(vs).exitTime = Undef
         THEN "yes"
         ELSE alreadyParked(Tail(vs), plate)

\* vehicles.find(v => v.number.toLowerCase() === plate && !v.exitTime): the
\* index found, 0 when none, Undef when the callback throws.
RECURSIVE findParked(_, _, _)
findParked(vs, plate, i) ==
    IF i > Len(vs) THEN 0
    ELSE IF vs[i].number = NoPlate THEN Undef
    ELSE IF toLowerCase(vs[i].number) = plate /\ vs[i].exitTime = Undef THEN i
    ELSE findParked(vs, plate, i + 1)

\* vehicles.map(v => v.id === id && !v.exitTime ? {...v, exitTime, fee} : v)
markExited(vs, id, exitTime, pricing) ==
    [i \in 1..Len(vs) |->
        IF vs[i].id = id /\ vs[i].exitTime = Undef
        THEN [vs[i] EXCEPT !.exitTime = exitTime,
                           !.fee = calculateParkingFee(vs[i].entryTime, exitTime,
                                                       vs[i].type, pricing)]
        ELSE vs[i]]

\* The body of the push that follows a local change: the new vehicle list
\* and what localStorage holds for the other three keys at that moment.
BackupBody(updatedVehicles, storage) ==
    [vehicles |-> Coll(updatedVehicles),
     permanentClients |-> Coll(storage.parking_permanent_clients),
     settings |-> IF storage.parking_settings.defined
                  THEN storage.parking_settings ELSE EmptySettings,
     dailyStats |-> Coll(storage.parking_daily_stats)]

EmptyBody ==
    [vehicles |-> Coll(<<>>), permanentClients |-> Coll(<<>>),
     settings |-> EmptySettings, dailyStats |-> Coll(<<>>)]

(***************************************************************************)
(* Bounds of the explored behaviours.                                      *)
(***************************************************************************)
MaxTime == 1
\* Operator actions and direct REST requests together.
MaxOps == 3

\* setTimeout(res, 2000) before the second PUT of exitVehicle.
RetryDelay == 2000

\* What the operator types into the entry and exit inputs.
EntryPlates == {<<"a">>, <<"A">>, <<>>}
EntryTypes == {"car"}

\* The owner of a backup request that no client handler awaits.
ApiOwner == Undef
NoRow == VehicleRow(NoVehicle)
NoReceipt == [vehicle |-> NoVehicle, exitTime |-> Undef, calculatedFee |-> Undef]
NoResp == [op |-> "none", status |-> 0, id |-> Undef, wasExited |-> FALSE, row |-> NoRow]
NoBk == [pc |-> "idle", owner |-> ApiOwner, body |-> EmptyBody,
         pre |-> InitStore, post |-> InitStore, status |-> 0, others |-> <<>>]
NoStorage ==
    [parking_vehicles |-> <<>>, parking_permanent_clients |-> <<>>,
     parking_settings |-> UndefinedSettings, parking_daily_stats |-> <<>>,
     last_user_activity |-> Undef, autoSync |-> NoStr, autoRestore |-> NoStr]

\* One pending asynchronous call of the client: addVehicle, exitVehicle or
\* saveDailyStats, with the values its closure captured; `puts` counts the
\* PUT /vehicles/:id/exit requests the call has made.
Task(tid, kind, pc, closure, veh, exitTime, fee, stats, body) ==
    [tid |-> tid, kind |-> kind, pc |-> pc, closure |-> closure, veh |-> veh,
     exitTime |-> exitTime, fee |-> fee, stats |-> stats, body |-> body,
     retryAt |-> Undef, puts |-> 0]

StatsTask(tid, stats) ==
    Task(tid, "stats", "post", <<>>, NoVehicle, Undef, Undef, stats, EmptyBody)

\* No statement of another request runs between BEGIN and COMMIT/ROLLBACK
\* unless requests interleave.
ServerFree == interleave \/ ~txn.active

(***************************************************************************)
(* server/server.js: POST /api/auth/login, and the login of the browser    *)
(* client (ParkingContext.login, LoginPage.handleLogin).                   *)
(***************************************************************************)
\* Whether the stored settings object has a `credentials` member.
HasCredentials(s) == s.username # NoStr \/ s.password # NoStr

\* process.env.X || stored: an unset (or empty) variable leaves the stored value.
OrElse(env, stored) == IF env # NoStr /\ env # "" THEN env ELSE stored

LoginResponse(status, success, message) ==
    [status |-> status, success |-> success, message |-> message]

\* A handler that tells a wrong user name from a wrong password
\* (sensitivity variant).
LoginNamingField(envUsername, envPassword, stored, username, password) ==
    IF ~HasCredentials(stored) THEN LoginResponse(500, FALSE, "Server error")
    ELSE IF username # OrElse(envUsername, stored.username)
         THEN LoginResponse(401, FALSE, "Unknown user")
    ELSE IF password # OrElse(envPassword, stored.password)
         THEN LoginResponse(401, FALSE, "Wrong password")
    ELSE LoginResponse(200, TRUE, "Login successful")

\* app.post('/api/auth/login'): assigning to settings.credentials.username
\* throws when the stored object has no credentials, and the catch block answers.
authLogin(envUsername, envPassword, stored, username, password) ==
    IF ~HasCredentials(stored) THEN LoginResponse(500, FALSE, "Server error")
    ELSE IF /\ username = OrElse(envUsername, stored.username)
            /\ password = OrElse(envPassword, stored.password)
         THEN LoginResponse(200, TRUE, "Login successful")
         ELSE LoginResponse(401, FALSE, "Invalid credentials")

\* ParkingContext.login against the client's settings state.
login(clientSettings, username, password) ==
    username = clientSettings.username /\ password = clientSettings.password

\* LoginPage.handleLogin: the toast it shows.
handleLogin(clientSettings, username, password) ==
    IF login(clientSettings, username, password)
    THEN [title |-> "Login successful",
          description |-> "Welcome to the parking management system"]
    ELSE [title |-> "Login failed", description |-> "Invalid username or password"]

NoAttempt == [username |-> NoStr, password |-> NoStr]
NoLoginIn ==
    [envUsername |-> NoStr, envPassword |-> NoStr, settings |-> DefaultSettings,
     first |-> NoAttempt, second |-> NoAttempt]

(***************************************************************************)
(* The page the browser has loaded: Dashboard's active tab, the toggle     *)
(* state and the setInterval timers of AutoSyncRestoreToggles (which exist *)
(* while the Settings tab is mounted) and ParkingProvider's restore poll.  *)
(* A timer is the time of its next tick.                                   *)
(***************************************************************************)
\* setInterval(..., 60 * 1000) of both restore loops.
RestoreInterval == 60 * 1000
\* setInterval(..., 2 * 60 * 1000) of the sync loop.
SyncInterval == 2 * 60 * 1000
\* if (timeSinceActivity < 15000) return;
ActivityWindow == 15000

\* The page as a (re)load at time t leaves it: useState('walkin'), no
\* AdminSettings mounted, the poll of ParkingProvider started.
PageLoad(loads, t) ==
    [loads |-> loads, activeTab |-> "walkin", autoSync |-> FALSE,
     autoRestore |-> FALSE, syncAt |-> Undef, restoreAt |-> Undef,
     pollAt |-> t + RestoreInterval]

NoDialog == [toggle |-> "none", confirmed |-> FALSE, input |-> NoStr]

\* getDefaultSettings() of utils/storage.ts.
getDefaultSettings ==
    [defined |-> TRUE, siteName |-> "Smart Parking System", pricing |-> ClientPricing,
     username |-> "admin", password |-> "admin 1234", viewMode |-> "list"]

\* {...defaultSettings, ...rawSettings, credentials: {...defaultSettings.credentials,
\*  ...rawSettings.credentials}}: a member the loaded object has wins.
mergedSettings(rawSettings) ==
    LET d == getDefaultSettings
        r == rawSettings
    IN  [defined |-> TRUE,
         siteName |-> IF r.siteName # NoStr THEN r.siteName ELSE d.siteName,
         pricing  |-> IF r.pricing # NoPricing THEN r.pricing ELSE d.pricing,
         username |-> IF r.username # NoStr THEN r.username ELSE d.username,
         password |-> IF r.password # NoStr THEN r.password ELSE d.password,
         viewMode |-> IF r.viewMode # NoStr THEN r.viewMode ELSE d.viewMode]

\* The pending loadData of a page load.
LoadTask(loads) ==
    Task(2 * MaxOps + 1 + loads, "load", "fetch", <<>>, NoVehicle, Undef, Undef,
         <<>>, EmptyBody)

InitProgram ==
    /\ page = PageLoad(1, 0)
    /\ dialog = NoDialog
    /\ now = 0
    /\ store = InitStore
    /\ txn = NoTxn
    /\ bk = NoBk
    /\ vehicles = <<>>
    /\ settings = DefaultSettings
    /\ ls = NoStorage
    /\ tasks = {}
    /\ exitReceiptData = NoReceipt
    /\ toast = ""
    /\ ops = 0
    /\ apiCalls = 0
    /\ apiResp = NoResp
    /\ dailyStats = <<>>
    /\ permanentClients = <<>>

InitCalc ==
    /\ loginIn = NoLoginIn
    /\ loginOut = <<>>
    /\ feeIn = NoFeeIn
    /\ feeOut = <<>>
    /\ bcIn = NoBcIn
    /\ bcOut = <<>>

Init == InitProgram /\ InitCalc /\ interleave = FALSE

InitConc == InitProgram /\ InitCalc /\ interleave = TRUE

Tick ==
    /\ now < MaxTime
    /\ now' = now + 1
    /\ UNCHANGED <<store, txn, bk, interleave, clientVars, apiCalls, apiResp, calcVars, extVars, listVars>>

(***************************************************************************)
(* WalkInClients.handleEntry up to its await of addVehicle.                *)
(***************************************************************************)
HandleEntry(vehicleNumber, vehicleType) ==
    /\ ops + apiCalls < MaxOps
    /\ ops' = ops + 1
    /\ LET dup == IF trim(vehicleNumber) = <<>> THEN "empty"
                  ELSE alreadyParked(vehicles, toLowerCase(trim(vehicleNumber)))
           newVehicle == JsVehicle(now, vehicleNumber, vehicleType, NoPlate, NoStr,
                                   now, Undef, Undef)
       IN  CASE dup = "empty" -> toast' = "Error: Please enter vehicle number"
                                 /\ tasks' = tasks
             [] dup = "yes"   -> toast' = "Duplicate Entry" /\ tasks' = tasks
             [] dup = "throw" -> toast' = "Error: Failed to enter vehicle"
                                 /\ tasks' = tasks
             [] dup = "no"    ->
                  /\ tasks' = tasks \cup {Task(ops + 1, "entry", "post", vehicles,
                                               newVehicle, Undef, Undef, <<>>,
                                               EmptyBody)}
                  /\ toast' = toast
    /\ UNCHANGED <<now, serverVars, interleave, vehicles, settings, ls,
                   exitReceiptData, apiCalls, apiResp, calcVars, extVars, listVars>>

\* setVehicles, saveVehicles, updateDailyStats and the fetch of /backup that
\* addVehicle and exitVehicle both end with.
LocalUpdate(t, veh, updatedVehicles, storage, puts) ==
    /\ vehicles' = updatedVehicles
    /\ dailyStats' = rebuildAllDailyStats(updatedVehicles)
    /\ ls' = [storage EXCEPT !.parking_vehicles = updatedVehicles]
    /\ tasks' = (tasks \ {t})
                \cup {[t EXCEPT !.pc = "sync", !.veh = veh, !.puts = puts,
                                !.body = BackupBody(updatedVehicles, storage)],
                      StatsTask(t.tid, rebuildAllDailyStats(updatedVehicles))}

\* addVehicle from the response of POST /vehicles to the fetch of /backup.
EntryPosted(t) ==
    /\ t \in tasks /\ t.kind = "entry" /\ t.pc = "post"
    /\ ServerFree
    /\ LET r == PostVehicle(store, t.veh, now)
           created == r.status = 200
           finalVehicle == IF created
                           THEN [t.veh EXCEPT !.id = r.json.id,
                                              !.entryTime = r.json.entryTime]
                           ELSE t.veh
       IN  /\ store' = r.store
           /\ LocalUpdate(t, finalVehicle, Append(t.closure, finalVehicle), ls, 0)
    /\ UNCHANGED <<now, txn, bk, interleave, settings, exitReceiptData, toast,
                   ops, apiCalls, apiResp, calcVars, extVars, permanentClients>>

(***************************************************************************)
(* WalkInClients.handleManualExit, showExitReceiptWithFee, confirmExit and *)
(* ParkingContext.exitVehicle.                                             *)
(***************************************************************************)
HandleManualExit(numberToExit) ==
    /\ ops + apiCalls < MaxOps
    /\ ops' = ops + 1
    /\ LET found == IF trim(numberToExit) = <<>> THEN 0
                    ELSE findParked(vehicles, toLowerCase(numberToExit), 1)
       IN  CASE trim(numberToExit) = <<>> ->
                  /\ toast' = "Error: Please enter vehicle number"
                  /\ exitReceiptData' = exitReceiptData
             [] trim(numberToExit) # <<>> /\ found = Undef ->
                  \* the TypeError leaves the handler; nothing is shown
                  UNCHANGED <<toast, exitReceiptData>>
             [] trim(numberToExit) # <<>> /\ found = 0 ->
                  /\ toast' = "Error: Vehicle not found or already exited"
                  /\ exitReceiptData' = exitReceiptData
             [] trim(numberToExit) # <<>> /\ found > 0 ->
                  /\ exitReceiptData' =
                        [vehicle |-> vehicles[found], exitTime |-> now,
                         calculatedFee |->
                            calculateParkingFee(vehicles[found].entryTime, now,
                                                vehicles[found].type, settings.pricing)]
                  /\ toast' = toast
    /\ UNCHANGED <<now, serverVars, interleave, vehicles, settings, ls, tasks,
                   apiCalls, apiResp, calcVars, extVars, listVars>>

\* confirmExit and the synchronous head of exitVehicle: with a parked record
\* of that id the PUT is sent, without one the handler goes on to its map.
ConfirmExit ==
    /\ exitReceiptData # NoReceipt
    /\ LET vehicleId == exitReceiptData.vehicle.id
           hit == {i \in 1..Len(vehicles) :
                     vehicles[i].id = vehicleId /\ vehicles[i].exitTime = Undef}
           vehicle == vehicles[CHOOSE i \in hit : \A j \in hit : i <= j]
           storage == [ls EXCEPT !.last_user_activity = now]
           tid == ops + MaxOps + 1
           t == Task(tid, "exit", "put", vehicles, exitReceiptData.vehicle, now,
                     IF hit = {} THEN Undef
                     ELSE calculateParkingFee(vehicle.entryTime, now, vehicle.type,
                                              settings.pricing),
                     <<>>, EmptyBody)
       IN  IF hit # {}
           THEN /\ tasks' = tasks \cup {t}
                /\ ls' = storage
                /\ vehicles' = vehicles
                /\ dailyStats' = dailyStats
           ELSE LocalUpdate(t, t.veh, markExited(vehicles, vehicleId, now, settings.pricing),
                            storage, 0)
    /\ exitReceiptData' = NoReceipt
    /\ toast' = "Vehicle exited"
    /\ UNCHANGED <<now, serverVars, interleave, settings, ops, apiCalls, apiResp, calcVars, extVars, permanentClients>>

\* The response of the first PUT /vehicles/:id/exit: on success the handler
\* goes on, on an error response it waits for the retry timer.
ExitPut(t) ==
    /\ t \in tasks /\ t.kind = "exit" /\ t.pc = "put"
    /\ ServerFree
    /\ LET r == PutExit(store, t.veh.id, t.fee, now)
       IN  /\ store' = r.store
           /\ IF r.status = 200
              THEN LocalUpdate(t, t.veh,
                               markExited(t.closure, t.veh.id, t.exitTime, settings.pricing),
                               ls, 1)
              ELSE /\ tasks' = (tasks \ {t})
                                \cup {[t EXCEPT !.pc = "retry", !.retryAt = now + RetryDelay,
                                               !.puts = 1]}
                   /\ UNCHANGED <<vehicles, ls, dailyStats>>
    /\ UNCHANGED <<now, txn, bk, interleave, settings, exitReceiptData, toast,
                   ops, apiCalls, apiResp, calcVars, extVars, permanentClients>>

\* A retry that is repeated until the PUT succeeds (sensitivity variant).
ExitRetryUntilSuccess(t) ==
    /\ t \in tasks /\ t.kind = "exit" /\ t.pc = "retry"
    /\ ServerFree
    /\ now' = IF now >= t.retryAt THEN now ELSE t.retryAt
    /\ LET r == PutExit(store, t.veh.id, t.fee, now')
       IN  /\ store' = r.store
           /\ IF r.status = 200
              THEN LocalUpdate(t, t.veh,
                               markExited(t.closure, t.veh.id, t.exitTime, settings.pricing),
                               ls, t.puts + 1)
              ELSE /\ tasks' = (tasks \ {t})
                                \cup {[t EXCEPT !.retryAt = now' + RetryDelay,
                                               !.puts = @ + 1]}
                   /\ UNCHANGED <<vehicles, ls, dailyStats>>
    /\ UNCHANGED <<txn, bk, interleave, settings, exitReceiptData, toast,
                   ops, apiCalls, apiResp, calcVars, extVars, permanentClients>>

\* The retry timer fires, the clock having reached its deadline, and the
\* second PUT is answered; its outcome is only logged.
ExitRetry(t) ==
    /\ t \in tasks /\ t.kind = "exit" /\ t.pc = "retry"
    /\ ServerFree
    /\ now' = IF now >= t.retryAt THEN now ELSE t.retryAt
    /\ store' = PutExit(store, t.veh.id, t.fee, now').store
    /\ LocalUpdate(t, t.veh,
                   markExited(t.closure, t.veh.id, t.exitTime, settings.pricing), ls,
                   t.puts + 1)
    /\ UNCHANGED <<txn, bk, interleave, settings, exitReceiptData, toast,
                   ops, apiCalls, apiResp, calcVars, extVars, permanentClients>>

\* saveDailyStats: POST /daily-stats with the array as body, then the write
\* to localStorage, on success and in the catch block alike.
SaveStatsDone(t) ==
    /\ t \in tasks /\ t.kind = "stats"
    /\ ServerFree
    /\ store' = PostDailyStats(store, ArrayBody).store
    /\ ls' = [ls EXCEPT !.parking_daily_stats = t.stats]
    /\ tasks' = tasks \ {t}
    /\ UNCHANGED <<now, txn, bk, interleave, vehicles, settings, exitReceiptData,
                   toast, ops, apiCalls, apiResp, calcVars, extVars, listVars>>

(***************************************************************************)
(* Requests made to the REST API directly (another front end, a script).   *)
(***************************************************************************)
ApiPlates == {<<"a">>, NoPlate}
ApiFees == {0, 50}
\* An id beyond every timestamp of a run: no row has it.
UnknownId == MaxTime + RetryDelay + 1000

\* Rows of request bodies.
RowG1 == JsVehicle(1, NoPlate, NoStr, <<"a">>, "car", 0, Undef, Undef)
RowG2 == JsVehicle(2, NoPlate, NoStr, <<"b">>, "bike", 1, 2, 20)
RowSameId == JsVehicle(1, NoPlate, NoStr, <<"c">>, "car", 1, Undef, Undef)
RowNoType == JsVehicle(3, NoPlate, NoStr, <<"c">>, NoStr, 1, Undef, Undef)
RowFeeNoExit == JsVehicle(4, NoPlate, NoStr, <<"d">>, "car", 1, Undef, 50)
RowExitBeforeEntry == JsVehicle(5, NoPlate, NoStr, <<"e">>, "car", 2, 1, 50)
\* A vehicle as the browser client sends it: number and type, no column names.
RowClientShaped == JsVehicle(6, <<"a">>, "car", NoPlate, NoStr, 0, Undef, Undef)

JsClient(id, name, vehicleNumber, contact, paymentStatus, entryTime) ==
    [id |-> id, name |-> name, vehicleNumber |-> vehicleNumber, contact |-> contact,
     paymentStatus |-> paymentStatus, entryTime |-> entryTime]

ClientG1 == JsClient(1, "Ali", <<"p">>, "0300", "paid", 0)
ClientNoContact == JsClient(2, "Bilal", <<"q">>, NoStr, "unpaid", 0)

StatG1 == JsStat(0, Undef, Undef, Undef, 2, Undef, 20)
StatClientShaped == JsStat(0, 1, 0, 0, 1, 0, Undef)

OtherSettings == [DefaultSettings EXCEPT !.password = "secret"]

GoodBody ==
    [vehicles |-> Coll(<<RowG1, RowG2>>), permanentClients |-> Coll(<<ClientG1>>),
     settings |-> OtherSettings, dailyStats |-> Coll(<<StatG1>>)]

ApiBackupBodies ==
    {GoodBody, EmptyBody,
     [GoodBody EXCEPT !.vehicles = Coll(<<RowG1, RowNoType>>)],
     [GoodBody EXCEPT !.vehicles = Coll(<<RowG1, RowSameId>>)],
     [GoodBody EXCEPT !.vehicles = MissingColl],
     [EmptyBody EXCEPT !.vehicles = Coll(<<RowClientShaped>>)],
     [GoodBody EXCEPT !.permanentClients = Coll(<<ClientG1, ClientNoContact>>)],
     [GoodBody EXCEPT !.permanentClients = MissingColl],
     [GoodBody EXCEPT !.dailyStats = Coll(<<StatG1, StatClientShaped>>)],
     [GoodBody EXCEPT !.dailyStats = MissingColl],
     [GoodBody EXCEPT !.settings = UndefinedSettings],
     [EmptyBody EXCEPT !.vehicles = Coll(<<RowFeeNoExit>>)],
     [EmptyBody EXCEPT !.vehicles = Coll(<<RowExitBeforeEntry>>)]}

ApiPostVehicle(vehicleNumber, vehicleType) ==
    /\ ops + apiCalls < MaxOps
    /\ ServerFree
    /\ LET r == PostVehicle(store,
                   JsVehicle(Undef, NoPlate, NoStr, vehicleNumber, vehicleType,
                             Undef, Undef, Undef), now)
       IN  /\ store' = r.store
           /\ apiResp' = [op |-> "post", status |-> r.status, id |-> r.json.id,
                          wasExited |-> FALSE,
                          row |-> IF r.status = 200
                                  THEN r.store.vehicles[Len(r.store.vehicles)]
                                  ELSE NoRow]
    /\ apiCalls' = apiCalls + 1
    /\ UNCHANGED <<now, txn, bk, interleave, clientVars, calcVars, extVars, listVars>>

ApiPutExit(id, fee) ==
    /\ ops + apiCalls < MaxOps
    /\ ServerFree
    /\ LET r == PutExit(store, id, fee, now)
       IN  /\ store' = r.store
           /\ apiResp' = [op |-> "exit", status |-> r.status, id |-> id,
                          wasExited |-> \E i \in 1..Len(store.vehicles) :
                                           /\ store.vehicles[i].id = id
                                           /\ store.vehicles[i].exitTime # Undef,
                          row |-> NoRow]
    /\ apiCalls' = apiCalls + 1
    /\ UNCHANGED <<now, txn, bk, interleave, clientVars, calcVars, extVars, listVars>>

ClientIds(st) ==
    {st.permanent_clients[i].id : i \in 1..Len(st.permanent_clients)} \cup {UnknownId}
ClientUpdates ==
    {ClientUpdate("Ali", <<"p">>, "0301", "unpaid"),
     ClientUpdate("Ali", <<"p">>, NoStr, "paid")}

ApiPutClient(id, body) ==
    /\ ops + apiCalls < MaxOps
    /\ ServerFree
    /\ LET r == PutClient(store, id, body)
       IN  /\ store' = r.store
           /\ apiResp' = [op |-> "put-client", status |-> r.status, id |-> id,
                          wasExited |-> FALSE, row |-> NoRow]
    /\ apiCalls' = apiCalls + 1
    /\ UNCHANGED <<now, txn, bk, interleave, clientVars, calcVars, extVars, listVars>>

ApiDeleteClient(id) ==
    /\ ops + apiCalls < MaxOps
    /\ ServerFree
    /\ LET r == DeleteClient(store, id)
       IN  /\ store' = r.store
           /\ apiResp' = [op |-> "delete-client", status |-> r.status, id |-> id,
                          wasExited |-> FALSE, row |-> NoRow]
    /\ apiCalls' = apiCalls + 1
    /\ UNCHANGED <<now, txn, bk, interleave, clientVars, calcVars, extVars, listVars>>

(***************************************************************************)
(* POST /api/backup as the server runs it: BEGIN and the three DELETEs,    *)
(* then the inserts and COMMIT, or the catch block's ROLLBACK.             *)
(***************************************************************************)
BkStart(owner, body) ==
    /\ bk.pc \in {"idle", "responded"}
    /\ BeginOk(txn)
    /\ txn' = [active |-> TRUE, snapshot |-> store]
    /\ bk' = [pc |-> "deleted", owner |-> owner, body |-> body,
              pre |-> store, post |-> store, status |-> 0, others |-> <<>>]
    /\ store' = DeleteAll(store)

\* The push that ends addVehicle or exitVehicle reaches the server.
BkBegin(t) ==
    /\ t \in tasks /\ t.pc = "sync"
    /\ BkStart(t.tid, t.body)
    /\ tasks' = (tasks \ {t}) \cup {[t EXCEPT !.pc = "syncing"]}
    /\ UNCHANGED <<now, interleave, vehicles, settings, ls, exitReceiptData, toast,
                   ops, apiCalls, apiResp, calcVars, extVars, listVars>>

ApiBackup(body) ==
    /\ ops + apiCalls < MaxOps
    /\ BkStart(ApiOwner, body)
    /\ apiCalls' = apiCalls + 1
    /\ apiResp' = [NoResp EXCEPT !.op = "backup"]
    /\ UNCHANGED <<now, interleave, clientVars, calcVars, extVars, listVars>>

\* A second POST /api/backup while the first is between two of its awaits:
\* its BEGIN throws on the shared connection and its catch block's ROLLBACK
\* ends the open transaction, which is the first request's.
BkSecond(body) ==
    /\ ops + apiCalls < MaxOps
    /\ interleave
    /\ bk.pc = "deleted"
    /\ ~BeginOk(txn)
    /\ store' = Rollback(store, txn)
    /\ txn' = NoTxn
    /\ bk' = [bk EXCEPT !.others = Append(@, body)]
    /\ apiCalls' = apiCalls + 1
    /\ apiResp' = [NoResp EXCEPT !.op = "backup", !.status = 500]
    /\ UNCHANGED <<now, interleave, clientVars, calcVars, extVars, listVars>>

\* The response ends the awaiting handler: handleEntry shows its toast.
BkFinish ==
    /\ bk.pc = "deleted"
    /\ LET r == InsertSnapshot(store, bk.body)
           after == IF r.ok THEN r.store ELSE Rollback(r.store, txn)
           \* without an open transaction COMMIT throws, and so does the catch
           \* block's ROLLBACK: the request is never answered (status 0)
           status == IF ~txn.active THEN 0 ELSE IF r.ok THEN 200 ELSE 500
           waiting == {t \in tasks : t.pc = "syncing" /\ t.tid = bk.owner /\ status # 0}
       IN  /\ store' = after
           /\ txn' = NoTxn
           /\ bk' = [bk EXCEPT !.pc = "responded", !.post = after, !.status = status]
           /\ tasks' = tasks \ waiting
           /\ toast' = IF \E t \in waiting : t.kind = "entry"
                       THEN "Vehicle entered" ELSE toast
           /\ apiResp' = IF bk.owner = ApiOwner /\ apiResp.op = "backup"
                         THEN [apiResp EXCEPT !.status = status] ELSE apiResp
    /\ UNCHANGED <<now, interleave, vehicles, settings, ls, exitReceiptData, ops,
                   apiCalls, calcVars, extVars, listVars>>

(***************************************************************************)
(* The operator reloads the page; ParkingProvider mounts again and its     *)
(* loadData runs: every React state starts over and every suspended        *)
(* handler of the old page is gone; a backup request the server already    *)
(* holds is still served.                                                  *)
(***************************************************************************)
NewPage(t) ==
    /\ page' = PageLoad(page.loads + 1, t)
    /\ vehicles' = <<>>
    /\ dailyStats' = <<>>
    /\ permanentClients' = <<>>
    /\ settings' = getDefaultSettings
    /\ exitReceiptData' = NoReceipt
    /\ tasks' = {LoadTask(page.loads + 1)}

Reload ==
    /\ ops + apiCalls < MaxOps
    /\ ops' = ops + 1
    /\ NewPage(now)
    /\ toast' = ""
    /\ UNCHANGED <<now, serverVars, interleave, ls, apiCalls, apiResp, dialog,
                   calcVars, loginVars>>

\* A row of SELECT * FROM daily_stats as the JSON object the client receives.
StatAsJson(r) == JsStat(r.date, Undef, Undef, Undef, r.totalVehicles, Undef, r.totalRevenue)

\* loadData's map over the loaded clients: the dates become Date objects,
\* an absent paymentDate becomes undefined.
LoadedClient(c) ==
    [x \in DOMAIN c \cup {"paymentDate"} |->
        IF x \in DOMAIN c THEN c[x] ELSE Undef]

\* GET /api/vehicles as the client receives it.
getVehicles(st) == [i \in 1..Len(st.vehicles) |-> RowAsJson(st.vehicles[i])]

\* loadData: loadVehicles and loadSettings answer from the API, or from
\* localStorage when the request fails; then the daily stats are rebuilt
\* from a non-empty list.
LoadData(t, reachable) ==
    /\ t \in tasks /\ t.kind = "load"
    /\ reachable => ServerFree
    /\ LET loadedVehicles == IF reachable THEN getVehicles(store)
                             ELSE ls.parking_vehicles
           rawSettings == IF reachable THEN store.settings
                          ELSE IF ls.parking_settings.defined THEN ls.parking_settings
                          ELSE getDefaultSettings
       IN  /\ vehicles' = loadedVehicles
           /\ permanentClients' =
                 LET loaded == IF reachable THEN store.permanent_clients
                               ELSE ls.parking_permanent_clients
                 IN  [i \in 1..Len(loaded) |-> LoadedClient(loaded[i])]
           /\ settings' = mergedSettings(rawSettings)
           /\ IF Len(loadedVehicles) > 0
              THEN /\ dailyStats' = rebuildAllDailyStats(loadedVehicles)
                   /\ tasks' = (tasks \ {t})
                         \cup {StatsTask(t.tid, rebuildAllDailyStats(loadedVehicles))}
              ELSE \* loadDailyStats: its own request, which may fail by itself
                   /\ \E statsReachable \in BOOLEAN :
                         /\ statsReachable => ServerFree
                         /\ dailyStats' =
                               IF statsReachable
                               THEN [i \in 1..Len(store.daily_stats) |->
                                        StatAsJson(store.daily_stats[i])]
                               ELSE ls.parking_daily_stats
                   /\ tasks' = tasks \ {t}
    /\ UNCHANGED <<now, serverVars, interleave, ls, exitReceiptData, toast, ops,
                   apiCalls, apiResp, calcVars, extVars>>

(***************************************************************************)
(* WalkInClients.handleBarcodeExit: the scan is matched against the parked *)
(* vehicles, the exit receipt of the match is shown, and a 50 ms timer     *)
(* calls the confirmExit of the render in which the scan was handled, with *)
(* that render's exitReceiptData and vehicles.                             *)
(***************************************************************************)
\* String.prototype.includes
Includes(s, sub) ==
    \E i \in 0..(Len(s) - Len(sub)) : SubSeq(s, i + 1, i + Len(sub)) = sub

\* !v.exitTime && (vehicleBarcode === scanned || scanned.includes(vehicleBarcode))
ScanMatches(v, scanned) ==
    /\ v.exitTime = Undef
    /\ \/ generateBarcode(v.number, v.entryTime) = scanned
       \/ Includes(scanned, generateBarcode(v.number, v.entryTime))

HandleBarcodeExit(barcode) ==
    /\ ops + apiCalls < MaxOps
    /\ ops' = ops + 1
    /\ LET value == trim(barcode)
           scanned == toUpperCase(value)
           \* generateBarcode throws on a record without a number member
           throws == \E i \in 1..Len(vehicles) :
                        /\ vehicles[i].number = NoPlate
                        /\ \A j \in 1..(i - 1) : ~ScanMatches(vehicles[j], scanned)
           hit == {i \in 1..Len(vehicles) :
                     vehicles[i].number # NoPlate /\ ScanMatches(vehicles[i], scanned)}
           found == CHOOSE i \in hit : \A j \in hit : i <= j
       IN  CASE value = <<>> ->
                  /\ toast' = "Error: Please enter barcode"
                  /\ UNCHANGED <<exitReceiptData, tasks>>
             [] value # <<>> /\ throws -> UNCHANGED <<toast, exitReceiptData, tasks>>
             [] value # <<>> /\ ~throws /\ hit = {} ->
                  /\ toast' = "Error: Invalid barcode or vehicle already exited"
                  /\ UNCHANGED <<exitReceiptData, tasks>>
             [] value # <<>> /\ ~throws /\ hit # {} ->
                  /\ exitReceiptData' =
                        [vehicle |-> vehicles[found], exitTime |-> now,
                         calculatedFee |->
                            calculateParkingFee(vehicles[found].entryTime, now,
                                                vehicles[found].type, settings.pricing)]
                  /\ tasks' = tasks \cup
                        {[tid |-> 6 * MaxOps + ops + 1, kind |-> "scan", pc |-> "timer",
                          scanned |-> scanned, veh |-> vehicles[found],
                          receipt |-> exitReceiptData, closure |-> vehicles]}
                  /\ toast' = toast
    /\ UNCHANGED <<now, serverVars, interleave, vehicles, settings, ls,
                   apiCalls, apiResp, calcVars, extVars, listVars>>

\* The 50 ms timer: confirmExit and exitVehicle of the scanning render.
BarcodeTimer(s) ==
    /\ s \in tasks /\ s.kind = "scan"
    /\ IF s.receipt = NoReceipt
       THEN /\ tasks' = tasks \ {s}
            /\ UNCHANGED <<vehicles, ls, dailyStats, exitReceiptData, toast>>
       ELSE LET vehicleId == s.receipt.vehicle.id
                hit == {i \in 1..Len(s.closure) :
                          s.closure[i].id = vehicleId /\ s.closure[i].exitTime = Undef}
                vehicle == s.closure[CHOOSE i \in hit : \A j \in hit : i <= j]
                storage == [ls EXCEPT !.last_user_activity = now]
                t == Task(s.tid + MaxOps, "exit", "put", s.closure, s.receipt.vehicle, now,
                          IF hit = {} THEN Undef
                          ELSE calculateParkingFee(vehicle.entryTime, now, vehicle.type,
                                                   settings.pricing),
                          <<>>, EmptyBody)
                updatedVehicles == markExited(s.closure, vehicleId, now, settings.pricing)
            IN  /\ IF hit # {}
                   THEN /\ tasks' = (tasks \ {s}) \cup {t}
                        /\ ls' = storage
                        /\ UNCHANGED <<vehicles, dailyStats>>
                   ELSE /\ vehicles' = updatedVehicles
                        /\ dailyStats' = rebuildAllDailyStats(updatedVehicles)
                        /\ ls' = [storage EXCEPT !.parking_vehicles = updatedVehicles]
                        /\ tasks' = (tasks \ {s}) \cup
                              {[t EXCEPT !.pc = "sync",
                                         !.body = BackupBody(updatedVehicles, storage)],
                               StatsTask(t.tid, rebuildAllDailyStats(updatedVehicles))}
                /\ exitReceiptData' = NoReceipt
                /\ toast' = "Vehicle exited"
    /\ UNCHANGED <<now, serverVars, interleave, settings, ops, apiCalls, apiResp,
                   calcVars, extVars, permanentClients>>

(***************************************************************************)
(* PermanentClients.togglePaymentStatus and the context's                  *)
(* updatePermanentClient: the list and the cache are updated at once, the  *)
(* PUT is sent without being awaited and its failure is only logged.       *)
(***************************************************************************)
Flipped(status) == IF status = "paid" THEN "unpaid" ELSE "paid"

\* The body of the PUT: the two members of `updates`; the server reads
\* name, vehicleNumber, contact and paymentStatus from it.
ToggleBody(newStatus) == ClientUpdate(NoStr, NoPlate, NoStr, newStatus)

TogglePaymentStatus(i) ==
    /\ ops + apiCalls < MaxOps
    /\ ops' = ops + 1
    /\ i \in 1..Len(permanentClients)
    /\ LET client == permanentClients[i]
           newStatus == Flipped(client.paymentStatus)
           paymentDate == IF newStatus = "paid" THEN now ELSE Undef
           updatedClients ==
              [k \in 1..Len(permanentClients) |->
                  IF permanentClients[k].id = client.id
                  THEN [permanentClients[k] EXCEPT !.paymentStatus = newStatus,
                                                   !.paymentDate = paymentDate]
                  ELSE permanentClients[k]]
       IN  /\ permanentClients' = updatedClients
           /\ ls' = [ls EXCEPT !.parking_permanent_clients = updatedClients]
           /\ tasks' = tasks \cup {[tid |-> 4 * MaxOps + ops + 1, kind |-> "toggle",
                                    pc |-> "put", clientId |-> client.id,
                                    updates |-> ToggleBody(newStatus)]}
    /\ toast' = "Payment status updated"
    /\ UNCHANGED <<now, serverVars, interleave, vehicles, settings, exitReceiptData,
                   apiCalls, apiResp, calcVars, extVars, dailyStats>>

\* The server answers the PUT.
TogglePut(t) ==
    /\ t \in tasks /\ t.kind = "toggle" /\ t.pc = "put"
    /\ ServerFree
    /\ store' = PutClient(store, t.clientId, t.updates).store
    /\ tasks' = tasks \ {t}
    /\ UNCHANGED <<now, txn, bk, interleave, vehicles, settings, ls, exitReceiptData,
                   toast, ops, apiCalls, apiResp, calcVars, extVars, listVars>>

(***************************************************************************)
(* AdminSettings: the Settings tab with AutoSyncRestoreToggles.  Radix     *)
(* mounts a TabsContent only while its tab is active, so the toggles, and  *)
(* the two intervals their effects start, exist while Settings is open.    *)
(***************************************************************************)
\* localStorage.getItem(key) === 'true'
IsTrue(item) == item = "true"

\* The owner id of the requests the timers send.
LoopTid == 0

\* The operator opens the Settings tab: the toggles read their state from
\* localStorage and each effect starts its interval when its flag is set.
OpenSettings ==
    /\ page.activeTab # "settings"
    /\ page' = [page EXCEPT
                  !.activeTab = "settings",
                  !.autoSync = IsTrue(ls.autoSync),
                  !.autoRestore = IsTrue(ls.autoRestore),
                  !.syncAt = IF IsTrue(ls.autoSync) THEN now + SyncInterval ELSE Undef,
                  !.restoreAt = IF IsTrue(ls.autoRestore) THEN now + RestoreInterval
                                ELSE Undef]
    /\ UNCHANGED <<now, serverVars, interleave, clientVars, apiCalls, apiResp,
                   dialog, calcVars, loginVars, listVars>>

\* The operator goes back to the Walk-in tab: the effects' cleanups clear
\* both intervals.
LeaveSettings ==
    /\ page.activeTab = "settings"
    /\ page' = [page EXCEPT !.activeTab = "walkin", !.autoSync = FALSE,
                            !.autoRestore = FALSE, !.syncAt = Undef, !.restoreAt = Undef]
    /\ UNCHANGED <<now, serverVars, interleave, clientVars, apiCalls, apiResp,
                   dialog, calcVars, loginVars, listVars>>

\* A toggle that asks for the phrase and enables whatever is typed
\* (sensitivity variant).
ToggleSyncAnyPhrase(confirmed, input) ==
    /\ page.activeTab = "settings"
    /\ dialog' = [toggle |-> "sync", confirmed |-> confirmed, input |-> input]
    /\ IF ~page.autoSync
       THEN IF ~confirmed THEN UNCHANGED <<page, ls, toast>>
            ELSE /\ page' = [page EXCEPT !.autoSync = TRUE,
                                         !.syncAt = now + SyncInterval]
                 /\ ls' = [ls EXCEPT !.autoSync = "true"]
                 /\ toast' = "Auto Sync enabled"
       ELSE /\ page' = [page EXCEPT !.autoSync = FALSE, !.syncAt = Undef]
            /\ ls' = [ls EXCEPT !.autoSync = "false"]
            /\ toast' = "Auto Sync disabled"
    /\ UNCHANGED <<now, serverVars, interleave, vehicles, settings, tasks,
                   exitReceiptData, ops, apiCalls, apiResp, calcVars, loginVars, listVars>>

\* handleToggleSync with the operator's answers to window.confirm and
\* window.prompt (NoStr: the prompt was cancelled).
HandleToggleSync(confirmed, input) ==
    /\ page.activeTab = "settings"
    /\ dialog' = [toggle |-> "sync", confirmed |-> confirmed, input |-> input]
    /\ IF ~page.autoSync
       THEN IF ~confirmed THEN UNCHANGED <<page, ls, toast>>
            ELSE IF input # "SYNC"
                 THEN toast' = "Auto Sync not enabled" /\ UNCHANGED <<page, ls>>
            ELSE /\ page' = [page EXCEPT !.autoSync = TRUE,
                                         !.syncAt = now + SyncInterval]
                 /\ ls' = [ls EXCEPT !.autoSync = "true"]
                 /\ toast' = "Auto Sync enabled"
       ELSE /\ page' = [page EXCEPT !.autoSync = FALSE, !.syncAt = Undef]
            /\ ls' = [ls EXCEPT !.autoSync = "false"]
            /\ toast' = "Auto Sync disabled"
    /\ UNCHANGED <<now, serverVars, interleave, vehicles, settings, tasks,
                   exitReceiptData, ops, apiCalls, apiResp, calcVars, loginVars, listVars>>

HandleToggleRestore(confirmed, input) ==
    /\ page.activeTab = "settings"
    /\ dialog' = [toggle |-> "restore", confirmed |-> confirmed, input |-> input]
    /\ IF ~page.autoRestore
       THEN IF ~confirmed THEN UNCHANGED <<page, ls, toast>>
            ELSE IF input # "RESTORE"
                 THEN toast' = "Auto Restore not enabled" /\ UNCHANGED <<page, ls>>
            ELSE /\ page' = [page EXCEPT !.autoRestore = TRUE,
                                         !.restoreAt = now + RestoreInterval]
                 /\ ls' = [ls EXCEPT !.autoRestore = "true"]
                 /\ toast' = "Auto Restore enabled"
       ELSE /\ page' = [page EXCEPT !.autoRestore = FALSE, !.restoreAt = Undef]
            /\ ls' = [ls EXCEPT !.autoRestore = "false"]
            /\ toast' = "Auto Restore disabled"
    /\ UNCHANGED <<now, serverVars, interleave, vehicles, settings, tasks,
                   exitReceiptData, ops, apiCalls, apiResp, calcVars, loginVars, listVars>>

(***************************************************************************)
(* The timers: the sync interval and the restore interval of the toggles,  *)
(* and the restore poll of ParkingProvider.                                *)
(***************************************************************************)
\* The sync interval fires: the four localStorage entries are sent to
\* POST /backup; the answer is ignored.
SyncTick ==
    /\ page.syncAt # Undef /\ now >= page.syncAt
    /\ page' = [page EXCEPT !.syncAt = @ + SyncInterval]
    /\ tasks' = tasks \cup {Task(LoopTid, "autosync", "sync", <<>>, NoVehicle, Undef,
                                  Undef, <<>>, BackupBody(ls.parking_vehicles, ls))}
    /\ UNCHANGED <<now, serverVars, interleave, vehicles, settings, ls,
                   exitReceiptData, toast, ops, apiCalls, apiResp, dialog,
                   calcVars, loginVars, listVars>>

\* A restore cycle that has sent its first GET; `retryAt` is unused and
\* `exitTime` holds the time of the tick that started the cycle.
RestoreTask(t) == Task(LoopTid, "restore", "fetch", <<>>, NoVehicle, t, Undef, <<>>,
                       EmptyBody)

\* A poll that fetches whatever the flag says (sensitivity variant).
PollStartsAlways(storage, t) == TRUE

\* The poll of ParkingProvider goes on to fetch: the flag is set and no
\* activity is recorded for the last 15 seconds.
PollStarts(storage, t) ==
    /\ IsTrue(storage.autoRestore)
    /\ ~(storage.last_user_activity # Undef
           /\ t - storage.last_user_activity < ActivityWindow)

PollTick ==
    /\ now >= page.pollAt
    /\ page' = [page EXCEPT !.pollAt = @ + RestoreInterval]
    /\ tasks' = IF PollStarts(ls, now) THEN tasks \cup {RestoreTask(now)} ELSE tasks
    /\ UNCHANGED <<now, serverVars, interleave, vehicles, settings, ls,
                   exitReceiptData, toast, ops, apiCalls, apiResp, dialog,
                   calcVars, loginVars, listVars>>

\* The restore interval of the toggles fires: it fetches unconditionally.
RestoreTick ==
    /\ page.restoreAt # Undef /\ now >= page.restoreAt
    /\ page' = [page EXCEPT !.restoreAt = @ + RestoreInterval]
    /\ tasks' = tasks \cup {RestoreTask(now)}
    /\ UNCHANGED <<now, serverVars, interleave, vehicles, settings, ls,
                   exitReceiptData, toast, ops, apiCalls, apiResp, dialog,
                   calcVars, loginVars, listVars>>

(***************************************************************************)
(* GET /api/backup/download, and the downloaded file posted back to        *)
(* POST /api/backup.  express.json() is mounted without options: a body    *)
(* of more than 100 kB is refused with 413 before the handler runs.        *)
(***************************************************************************)
JsonLimit == 102400
\* The JSON text of one row as POST /api/vehicles writes it (a 13-digit id,
\* an ISO entryTime), with a plate of one character and no indentation.
VehicleJsonBytes == 128

\* A lower estimate of the length of a snapshot's JSON text.
JsonBytes(body) == Len(body.vehicles.items) * VehicleJsonBytes
TooLarge(body) == JsonBytes(body) > JsonLimit

\* backupData of the download handler.
backupData(st) ==
    [vehicles |-> Coll(getVehicles(st)),
     permanentClients |-> Coll(st.permanent_clients),
     settings |-> st.settings,
     dailyStats |-> Coll([i \in 1..Len(st.daily_stats) |-> StatAsJson(st.daily_stats[i])])]

FileTid == 9 * MaxOps

ApiDownload ==
    /\ ops + apiCalls < MaxOps
    /\ ServerFree
    /\ apiCalls' = apiCalls + 1
    /\ tasks' = tasks \cup {[tid |-> FileTid, kind |-> "download", pc |-> "file",
                             body |-> backupData(store)]}
    /\ apiResp' = [NoResp EXCEPT !.op = "download", !.status = 200]
    /\ UNCHANGED <<now, serverVars, interleave, vehicles, settings, ls,
                   exitReceiptData, toast, ops, calcVars, extVars, listVars>>

\* The file is posted to /api/backup.
ApiRestoreFile(t) ==
    /\ ops + apiCalls < MaxOps
    /\ t \in tasks /\ t.kind = "download"
    /\ apiCalls' = apiCalls + 1
    /\ IF TooLarge(t.body)
       THEN /\ bk.pc \in {"idle", "responded"}
            /\ bk' = [pc |-> "responded", owner |-> FileTid, body |-> t.body,
                      pre |-> store, post |-> store, status |-> 413, others |-> <<>>]
            /\ apiResp' = [NoResp EXCEPT !.op = "backup", !.status = 413]
            /\ UNCHANGED <<store, txn>>
       ELSE /\ BkStart(FileTid, t.body)
            /\ apiResp' = [NoResp EXCEPT !.op = "backup"]
    /\ UNCHANGED <<now, interleave, clientVars, calcVars, extVars, listVars>>

\* What the four GETs of a restore cycle answer.
Fresh(st) ==
    [vehicles |-> Coll(getVehicles(st)),
     permanentClients |-> Coll(st.permanent_clients),
     settings |-> st.settings,
     dailyStats |-> Coll([i \in 1..Len(st.daily_stats) |-> StatAsJson(st.daily_stats[i])])]

\* The server answers the GETs of a restore cycle; when a request fails the
\* cycle ends in its catch block.
RestoreServed(t, reachable) ==
    /\ t \in tasks /\ t.kind = "restore" /\ t.pc = "fetch"
    /\ reachable => ServerFree
    /\ tasks' = (tasks \ {t})
                \cup (IF reachable THEN {[t EXCEPT !.pc = "apply", !.body = Fresh(store)]}
                      ELSE {})
    /\ UNCHANGED <<now, serverVars, interleave, vehicles, settings, ls,
                   exitReceiptData, toast, ops, apiCalls, apiResp, calcVars, extVars, listVars>>

\* A cycle that reloads the page and leaves the cache as it is
\* (sensitivity variant).
RestoreApplyKeepingCache(t) ==
    /\ t \in tasks /\ t.kind = "restore" /\ t.pc = "apply"
    /\ NewPage(now)
    /\ toast' = ""
    /\ UNCHANGED <<now, serverVars, interleave, ls, ops, apiCalls, apiResp, dialog,
                   calcVars, loginVars>>

\* The cycle writes the four entries and reloads the page.
RestoreApply(t) ==
    /\ t \in tasks /\ t.kind = "restore" /\ t.pc = "apply"
    /\ ls' = [ls EXCEPT !.parking_vehicles = t.body.vehicles.items,
                        !.parking_permanent_clients = t.body.permanentClients.items,
                        !.parking_settings = t.body.settings,
                        !.parking_daily_stats = t.body.dailyStats.items]
    /\ NewPage(now)
    /\ toast' = ""
    /\ UNCHANGED <<now, serverVars, interleave, ops, apiCalls, apiResp, dialog,
                   calcVars, loginVars>>

\* The cycle request by request: the four GETs are awaited one after the
\* other, and a request that fails takes the cycle to its catch block.
\* `seen` lists the server stores the answered GETs have read.
ManualTid == 8 * MaxOps
Seen(t) == IF "seen" \in DOMAIN t THEN t.seen ELSE <<>>
RestoreGets == {"fetch", "fetchClients", "fetchSettings", "fetchStats"}

\* A cycle that goes on after a failed request with what it has
\* (sensitivity variant).
AfterFailedGetApply(t) == [t EXCEPT !.pc = "apply"]


\* console.error, or the toast of the button's handler: the cycle is over
AfterFailedGet(t) == [RestoreTask(t.exitTime) EXCEPT !.tid = t.tid, !.pc = "failed"]

RestoreServedOne(t, reachable) ==
    /\ t \in tasks /\ t.kind = "restore" /\ t.pc \in RestoreGets
    /\ reachable => ServerFree
    /\ LET fresh == Fresh(store)
           got == CASE t.pc = "fetch" -> [t.body EXCEPT !.vehicles = fresh.vehicles]
                    [] t.pc = "fetchClients" ->
                          [t.body EXCEPT !.permanentClients = fresh.permanentClients]
                    [] t.pc = "fetchSettings" -> [t.body EXCEPT !.settings = fresh.settings]
                    [] t.pc = "fetchStats" -> [t.body EXCEPT !.dailyStats = fresh.dailyStats]
           next == CASE t.pc = "fetch" -> "fetchClients"
                     [] t.pc = "fetchClients" -> "fetchSettings"
                     [] t.pc = "fetchSettings" -> "fetchStats"
                     [] t.pc = "fetchStats" -> "apply"
           answered == [x \in DOMAIN t \cup {"seen"} |->
                          CASE x = "seen" -> Append(Seen(t), store)
                            [] x = "pc" -> next
                            [] x = "body" -> got
                            [] OTHER -> t[x]]
       IN  tasks' = (tasks \ {t}) \cup {IF reachable THEN answered ELSE AfterFailedGet(t)}
    /\ toast' = IF ~reachable /\ t.tid = ManualTid THEN "Restore Failed" ELSE toast
    /\ UNCHANGED <<now, serverVars, interleave, vehicles, settings, ls,
                   exitReceiptData, ops, apiCalls, apiResp, calcVars, extVars, listVars>>

\* The operator presses "Restore Data from Server" on the Settings tab.
HandleRestoreClick ==
    /\ ops + apiCalls < MaxOps
    /\ page.activeTab = "settings"
    /\ ops' = ops + 1
    /\ tasks' = tasks \cup {[RestoreTask(now) EXCEPT !.tid = ManualTid]}
    /\ UNCHANGED <<now, serverVars, interleave, vehicles, settings, ls,
                   exitReceiptData, toast, apiCalls, apiResp, calcVars, extVars, listVars>>

\* Time passes up to the next tick of a running timer, within a horizon; a
\* due tick fires before time goes on.
Timers == {page.pollAt, page.syncAt, page.restoreAt} \ {Undef}
Elapse(t, horizon) ==
    /\ t > now /\ t <= horizon
    /\ \A d \in Timers : t <= d
    /\ now' = t
    /\ UNCHANGED <<serverVars, interleave, clientVars, apiCalls, apiResp, calcVars, extVars, listVars>>

\* The operator checks one vehicle in and then out on the Walk-in tab.
LoopPlate == <<"a">>
CheckInAndOut ==
    \/ page.activeTab = "walkin" /\ ops = 0 /\ HandleEntry(LoopPlate, "car")
    \/ \E t \in tasks : EntryPosted(t)
    \/ page.activeTab = "walkin" /\ ops = 1 /\ HandleManualExit(LoopPlate)
    \/ page.activeTab = "walkin" /\ ConfirmExit
    \/ \E t \in tasks : ExitPut(t)
    \/ \E t \in tasks : ExitRetry(t)
    \/ \E t \in tasks : SaveStatsDone(t)
    \/ \E t \in tasks : BkBegin(t)
    \/ BkFinish

\* The toggles under every answer of the operator, with the timers they start.
NextToggles ==
    \/ \E t \in Timers : Elapse(t, SyncInterval)
    \/ OpenSettings
    \/ LeaveSettings
    \/ \E c \in BOOLEAN, input \in {"SYNC", "sync", NoStr} : HandleToggleSync(c, input)
    \/ \E c \in BOOLEAN, input \in {"RESTORE", "SYNC", NoStr} : HandleToggleRestore(c, input)
    \/ SyncTick
    \/ PollTick
    \/ RestoreTick
    \/ \E t \in tasks, reachable \in BOOLEAN : RestoreServed(t, reachable)
    \/ \E t \in tasks : RestoreApply(t)
    \/ \E t \in tasks : BkBegin(t)
    \/ BkFinish
    \/ \E t \in tasks, reachable \in BOOLEAN : LoadData(t, reachable)

SpecToggles == Init /\ [][NextToggles]_vars

\* One client with the restore loops, up to the first tick of each.
NextRestore ==
    \/ \E t \in Timers : Elapse(t, RestoreInterval)
    \/ CheckInAndOut
    \/ \E t \in tasks, reachable \in BOOLEAN : LoadData(t, reachable)
    \/ OpenSettings
    \/ LeaveSettings
    \/ HandleToggleRestore(TRUE, "RESTORE")
    \/ PollTick
    \/ RestoreTick
    \/ \E t \in tasks, reachable \in BOOLEAN : RestoreServed(t, reachable)
    \/ \E t \in tasks : RestoreApply(t)

SpecRestore == Init /\ [][NextRestore]_vars

\* One client with the sync loop, up to its first tick.
NextSync ==
    \/ \E t \in Timers : Elapse(t, SyncInterval)
    \/ CheckInAndOut
    \/ OpenSettings
    \/ LeaveSettings
    \/ HandleToggleSync(TRUE, "SYNC")
    \/ PollTick
    \/ SyncTick

SpecSync == Init /\ [][NextSync]_vars

(***************************************************************************)
(* Both loops on one client, followed for ever.  The environment is the    *)
(* one in which the loops work against each other: the operator enables    *)
(* both loops and keeps the Settings tab open after every reload, a        *)
(* restore cycle is answered by the server just before the push of the     *)
(* sync interval is, its answers reach the page after that push, and the   *)
(* other restore cycles fail.  Every step is a step of the program; only   *)
(* the moments at which the network delivers and the operator clicks are   *)
(* chosen.  Nothing the page does depends on the origin of the clock, so   *)
(* a reloaded page is taken as the first page at time 0.                   *)
(***************************************************************************)
\* Restore intervals a page is followed for before it must have reloaded.
StompPeriods == 3

SyncPending == \E u \in tasks : u.kind = "autosync" /\ u.pc = "sync"

\* The reloaded page, before any time has passed on it, renamed: first
\* page, clock at 0.
Rebase ==
    /\ page.loads > 1
    /\ page.pollAt = now + RestoreInterval
    /\ tasks \subseteq {LoadTask(page.loads)}
    /\ now' = 0
    /\ page' = [page EXCEPT
                  !.loads = 1,
                  !.pollAt = RestoreInterval,
                  !.syncAt = IF @ = Undef THEN Undef ELSE SyncInterval,
                  !.restoreAt = IF @ = Undef THEN Undef ELSE RestoreInterval]
    /\ tasks' = IF tasks = {} THEN {} ELSE {LoadTask(1)}
    /\ UNCHANGED <<serverVars, interleave, vehicles, settings, ls, exitReceiptData,
                   toast, ops, apiCalls, apiResp, dialog, calcVars, loginVars, listVars>>

NextStomp ==
    \/ Rebase
    \/ ~page.autoSync /\ HandleToggleSync(TRUE, "SYNC")
    \/ ~page.autoRestore /\ HandleToggleRestore(TRUE, "RESTORE")
    \/ OpenSettings
    \/ /\ page.loads = 1 /\ page.autoSync /\ page.autoRestore
       /\ \E t \in Timers : Elapse(t, StompPeriods * RestoreInterval)
    \/ SyncTick
    \/ PollTick
    \/ RestoreTick
    \/ \E t \in tasks : RestoreServed(t, SyncPending)
    \/ \E t \in tasks :
          /\ \E u \in tasks : u.kind = "restore" /\ u.pc = "apply"
          /\ \A u \in tasks : u.kind = "restore" => u.pc = "apply"
          /\ BkBegin(t)
    \/ BkFinish
    \/ \E t \in tasks : Fresh(store) # t.body /\ ~SyncPending /\ RestoreApply(t)
    \/ \E t \in tasks, reachable \in BOOLEAN : LoadData(t, reachable)

\* The timers fire, requests are answered and promises are settled.
SpecStomp == Init /\ [][NextStomp]_vars /\ WF_vars(NextStomp)

Next ==
    \/ Tick
    \/ \E p \in EntryPlates, ty \in EntryTypes : HandleEntry(p, ty)
    \/ \E t \in tasks : EntryPosted(t)
    \/ \E p \in EntryPlates : HandleManualExit(p)
    \/ ConfirmExit
    \/ \E t \in tasks : ExitPut(t)
    \/ \E t \in tasks : ExitRetry(t)
    \/ \E t \in tasks : SaveStatsDone(t)
    \/ \E p \in ApiPlates, ty \in EntryTypes : ApiPostVehicle(p, ty)
    \/ \E id \in {store.vehicles[i].id : i \in 1..Len(store.vehicles)} \cup {UnknownId},
          fee \in ApiFees : ApiPutExit(id, fee)
    \/ \E body \in ApiBackupBodies : ApiBackup(body)
    \/ \E t \in tasks : BkBegin(t)
    \/ BkFinish

Spec == Init /\ [][Next]_vars

SpecConc == InitConc /\ [][Next]_vars

\* The server alone, under every sequence of direct requests.
NextServer ==
    \/ Tick
    \/ \E p \in ApiPlates, ty \in EntryTypes : ApiPostVehicle(p, ty)
    \/ \E id \in {store.vehicles[i].id : i \in 1..Len(store.vehicles)} \cup {UnknownId},
          fee \in ApiFees : ApiPutExit(id, fee)
    \/ \E body \in ApiBackupBodies : ApiBackup(body)
    \/ BkFinish
    \/ \E id \in ClientIds(store), body \in ClientUpdates : ApiPutClient(id, body)
    \/ \E id \in ClientIds(store) : ApiDeleteClient(id)

SpecServer == Init /\ [][NextServer]_vars

\* The check-in and check-out handlers up to their local update (the pushes
\* that follow are part of Spec), next to another front end that creates
\* vehicles on the server.
NextExit ==
    \/ Tick
    \/ \E p \in EntryPlates, ty \in EntryTypes : HandleEntry(p, ty)
    \/ \E t \in tasks : EntryPosted(t)
    \/ \E p \in EntryPlates : HandleManualExit(p)
    \/ ConfirmExit
    \/ \E t \in tasks : ExitPut(t)
    \/ \E t \in tasks : ExitRetry(t)
    \/ \E p \in ApiPlates, ty \in EntryTypes : ApiPostVehicle(p, ty)

SpecExit == Init /\ [][NextExit]_vars

\* One browser client with its page loads, against a server that no other
\* front end talks to.
NextPage ==
    \/ Tick
    \/ \E p \in EntryPlates, ty \in EntryTypes : HandleEntry(p, ty)
    \/ \E t \in tasks : EntryPosted(t)
    \/ \E p \in EntryPlates : HandleManualExit(p)
    \/ ConfirmExit
    \/ \E t \in tasks : ExitPut(t)
    \/ \E t \in tasks : ExitRetry(t)
    \/ \E t \in tasks : SaveStatsDone(t)
    \/ \E t \in tasks : BkBegin(t)
    \/ BkFinish
    \/ Reload
    \/ \E t \in tasks, reachable \in BOOLEAN : LoadData(t, reachable)

SpecPage == Init /\ [][NextPage]_vars

(***************************************************************************)
(* The calculators on their own.                                           *)
(***************************************************************************)
\* The client with reloads, beside another caller that posts vehicles.
NextStats ==
    \/ \E p \in EntryPlates, ty \in EntryTypes : HandleEntry(p, ty)
    \/ \E t \in tasks : EntryPosted(t)
    \/ \E p \in EntryPlates : HandleManualExit(p)
    \/ ConfirmExit
    \/ \E t \in tasks : ExitPut(t)
    \/ \E t \in tasks : ExitRetry(t)
    \/ \E t \in tasks : SaveStatsDone(t)
    \/ \E p \in ApiPlates, ty \in EntryTypes : ApiPostVehicle(p, ty)
    \/ Reload
    \/ \E t \in tasks, reachable \in BOOLEAN : LoadData(t, reachable)

SpecStats == Init /\ [][NextStats]_vars

\* The Permanent Clients page over clients the server holds.
ClientG2 == JsClient(2, "Bilal", <<"q">>, "0301", "unpaid", 0)
ClientsBody == [EmptyBody EXCEPT !.permanentClients = Coll(<<ClientG1, ClientG2>>)]

NextClients ==
    \/ Tick
    \/ \E body \in {GoodBody, ClientsBody} : ApiBackup(body)
    \/ BkFinish
    \/ Reload
    \/ \E t \in tasks, reachable \in BOOLEAN : LoadData(t, reachable)
    \/ \E i \in 1..Len(permanentClients) : TogglePaymentStatus(i)
    \/ \E t \in tasks : TogglePut(t)
    \/ \E t \in tasks : SaveStatsDone(t)

SpecClients == Init /\ [][NextClients]_vars

\* The Walk-in tab with a barcode scanner.
ScanValues ==
    {<<"A", "-", "0">>, <<"a", "-", "0">>, <<"A", "-", "1">>, <<"A", "A", "-", "0">>,
     <<"A", "-", "0", "1">>, <<"B", "-", "0">>, <<" ">>}

NextScan ==
    \/ Tick
    \/ \E p \in EntryPlates, ty \in EntryTypes : HandleEntry(p, ty)
    \/ \E t \in tasks : EntryPosted(t)
    \/ \E b \in ScanValues : HandleBarcodeExit(b)
    \/ \E s \in tasks : BarcodeTimer(s)
    \/ \E p \in EntryPlates : HandleManualExit(p)
    \/ ConfirmExit
    \/ \E t \in tasks : ExitPut(t)
    \/ \E t \in tasks : ExitRetry(t)

SpecScan == Init /\ [][NextScan]_vars

\* Direct requests, with a second backup arriving during the first.
NextTwoBackups ==
    \/ Tick
    \/ \E p \in ApiPlates, ty \in EntryTypes : ~txn.active /\ bk.others = <<>> /\ ApiPostVehicle(p, ty)
    \/ \E body \in ApiBackupBodies : bk.others = <<>> /\ ApiBackup(body)
    \/ \E body \in ApiBackupBodies : BkSecond(body)
    \/ BkFinish

SpecTwoBackups == InitConc /\ [][NextTwoBackups]_vars

\* The Walk-in tab with two vehicles at the gate.
OverlapPlates == {<<"a">>, <<"b">>}

NextOverlap ==
    \/ Tick
    \/ \E p \in OverlapPlates, ty \in EntryTypes : HandleEntry(p, ty)
    \/ \E t \in tasks : EntryPosted(t)
    \/ \E p \in OverlapPlates : HandleManualExit(p)
    \/ ConfirmExit
    \/ \E t \in tasks : ExitPut(t)
    \/ \E t \in tasks : ExitRetry(t)
    \/ \E t \in tasks : SaveStatsDone(t)
    \/ \E t \in tasks : BkBegin(t)
    \/ BkFinish

SpecOverlap == Init /\ [][NextOverlap]_vars

\* Restore cycles request by request, with one bulk restore on the server
\* and one press of the restore button.
NextTorn ==
    \/ \E t \in Timers : Elapse(t, RestoreInterval)
    \/ OpenSettings
    \/ ~page.autoRestore /\ HandleToggleRestore(TRUE, "RESTORE")
    \/ ops = 0 /\ HandleRestoreClick
    \/ PollTick
    \/ RestoreTick
    \/ \E t \in tasks, reachable \in BOOLEAN : RestoreServedOne(t, reachable)
    \/ \E t \in tasks : RestoreApply(t)
    \/ apiCalls = 0 /\ ApiBackup(GoodBody)
    \/ BkFinish

SpecTorn == Init /\ [][NextTorn]_vars

\* The server with a database of any size, its snapshot downloaded and
\* posted back.
LargeRows == JsonLimit \div VehicleJsonBytes + 1
LargeStore ==
    [InitStore EXCEPT !.vehicles =
        [i \in 1..LargeRows |->
            [id |-> i + MaxTime, vehicleNumber |-> <<"a">>, vehicleType |-> "car",
             entryTime |-> 0, exitTime |-> Undef, fee |-> Undef]]]

InitRound ==
    /\ InitCalc /\ interleave = FALSE
    /\ store \in {InitStore, LargeStore}
    /\ page = PageLoad(1, 0) /\ dialog = NoDialog /\ now = 0
    /\ txn = NoTxn /\ bk = NoBk
    /\ vehicles = <<>> /\ settings = DefaultSettings /\ ls = NoStorage
    /\ tasks = {} /\ exitReceiptData = NoReceipt /\ toast = ""
    /\ ops = 0 /\ apiCalls = 0 /\ apiResp = NoResp
    /\ dailyStats = <<>> /\ permanentClients = <<>>

NextRound ==
    \/ Tick
    \/ \E p \in ApiPlates, ty \in EntryTypes : ApiPostVehicle(p, ty)
    \/ \E body \in ApiBackupBodies : ApiBackup(body)
    \/ BkFinish
    \/ ApiDownload
    \/ \E t \in tasks : ApiRestoreFile(t)

SpecRound == InitRound /\ [][NextRound]_vars

InitFee ==
    /\ InitProgram
    /\ interleave = FALSE
    /\ feeIn \in {[entryTime |-> e, exitTime |-> e + d, vehicleType |-> ty,
                    pricing |-> p] :
                      e \in FeeEntryTimes, d \in FeeElapsed,
                      ty \in VehicleTypes, p \in PricingTables}
    /\ feeOut = <<>>
    /\ bcIn = NoBcIn
    /\ bcOut = <<>>
    /\ loginIn = NoLoginIn
    /\ loginOut = <<>>

SpecFee == InitFee /\ [][ComputeFee]_vars

InitBarcode ==
    /\ InitProgram
    /\ interleave = FALSE
    /\ feeIn = NoFeeIn
    /\ feeOut = <<>>
    /\ bcIn \in [plate1 : BarcodePlates, time1 : BarcodeTimes,
                 plate2 : BarcodePlates, time2 : BarcodeTimes]
    /\ bcOut = <<>>
    /\ loginIn = NoLoginIn
    /\ loginOut = <<>>

SpecBarcode == InitBarcode /\ [][GenerateBarcodes]_vars

(***************************************************************************)
(* The login check on its own: a deployment (environment variables, stored *)
(* settings) and two attempts drawn at Init.  PUT /api/settings and        *)
(* POST /api/backup store whatever settings object they are sent.          *)
(***************************************************************************)
LoginEnv == {NoStr, "root"}
LoginStored == {DefaultSettings, OtherSettings, EmptySettings}
LoginNames == {NoStr, "admin", "root", "x"}
LoginPasswords == {NoStr, "admin123", "secret", "root"}
LoginAttempts == [username : LoginNames, password : LoginPasswords]

InitLogin ==
    /\ InitProgram
    /\ interleave = FALSE
    /\ feeIn = NoFeeIn
    /\ feeOut = <<>>
    /\ bcIn = NoBcIn
    /\ bcOut = <<>>
    /\ loginIn \in [envUsername : LoginEnv, envPassword : LoginEnv,
                     settings : LoginStored,
                     first : LoginAttempts, second : LoginAttempts]
    /\ loginOut = <<>>

\* What one attempt is answered: by the server, and by the login page of a
\* client that loaded the stored settings.
Answer(in, attempt) ==
    [server |-> authLogin(in.envUsername, in.envPassword, in.settings,
                          attempt.username, attempt.password),
     page   |-> handleLogin(mergedSettings(in.settings),
                            attempt.username, attempt.password)]

LogIn ==
    /\ loginOut = <<>>
    /\ loginOut' = <<Answer(loginIn, loginIn.first), Answer(loginIn, loginIn.second)>>
    /\ UNCHANGED <<now, store, txn, bk, interleave, clientVars, apiCalls, apiResp,
                   calcVars, loginIn, pageVars, listVars>>

SpecLogin == InitLogin /\ [][LogIn]_vars

(***************************************************************************)
(* Properties of the fee calculator (SpecFee).                             *)
(***************************************************************************)
FeeHours == -2..13

\* The elapsed time rounded up to whole hours: the least h with h hours >= ms.
RoundedUpHours(ms) ==
    CHOOSE h \in FeeHours : h * MsPerHour >= ms /\ (h - 1) * MsPerHour < ms

FeeElapsedMs == feeIn.exitTime - feeIn.entryTime
FeePricing == feeIn.pricing[feeIn.vehicleType]

\* C6: whenever the elapsed time rounded up to whole hours is at most the
\* class's base hours (zero and negative elapsed time included),
\* calculateParkingFee returns exactly the class's base fee.
C6_BaseFeeWithinBaseHours ==
    (feeOut # <<>> /\ RoundedUpHours(FeeElapsedMs) <= FeePricing.baseHours)
        => feeOut[1] = FeePricing.baseFee

\* A fee computed for an exit before the entry, within the base hours.
C6_Witness ==
    /\ feeOut # <<>>
    /\ feeIn.exitTime < feeIn.entryTime
    /\ RoundedUpHours(FeeElapsedMs) <= FeePricing.baseHours
    /\ feeOut[1] = FeePricing.baseFee

\* The extra hours (duration in hours minus base hours) rounded up: the least
\* k with k hours >= duration - base hours.
CeilExtraHours ==
    CHOOSE k \in FeeHours :
        /\ k * MsPerHour >= FeeElapsedMs - FeePricing.baseHours * MsPerHour
        /\ (k - 1) * MsPerHour < FeeElapsedMs - FeePricing.baseHours * MsPerHour

FeeExample(elapsed) ==
    /\ feeOut # <<>>
    /\ feeIn.entryTime = NineOClock
    /\ feeIn.exitTime = NineOClock + elapsed
    /\ feeIn.vehicleType = "car"
    /\ feeIn.pricing = ServerPricing

\* C7: whenever the duration exceeds the class's base hours, the fee is the
\* base fee plus the rounded-up extra hours times the extra-hour fee; with
\* 2 h / 50 / 25 and entry at 09:00, exit at 10:30 costs 50 and exit at
\* 11:01 costs 75.
C7_ExtraHoursFee ==
    /\ (feeOut # <<>> /\ FeeElapsedMs > FeePricing.baseHours * MsPerHour)
          => feeOut[1] = FeePricing.baseFee + CeilExtraHours * FeePricing.extraHourFee
    /\ FeeExample(90 * Minute) => feeOut[1] = 50
    /\ FeeExample(2 * MsPerHour + Minute) => feeOut[1] = 75

\* The 11:01 exit of the example: one started extra hour is charged.
C7_Witness ==
    /\ FeeExample(2 * MsPerHour + Minute)
    /\ FeeElapsedMs > FeePricing.baseHours * MsPerHour
    /\ CeilExtraHours = 1
    /\ feeOut[1] = 75

(***************************************************************************)
(* Properties of the barcode generator (SpecBarcode).                      *)
(***************************************************************************)
\* C8 as stated: the same pair yields the same string, and two pairs that
\* differ in the plate string or in the entry time yield different strings.
C8_InjectiveOnRawPlate ==
    bcOut # <<>> =>
        /\ (bcIn.plate1 = bcIn.plate2 /\ bcIn.time1 = bcIn.time2) => bcOut[1] = bcOut[2]
        /\ (bcIn.plate1 # bcIn.plate2 \/ bcIn.time1 # bcIn.time2) => bcOut[1] # bcOut[2]

NormalizedPlate(plate) == toUpperCase(RemoveSpaces(plate))

\* C8, amended: the same pair yields the same string, and two pairs yield
\* different strings when they differ in the entry time or in the plate
\* after whitespace is removed and letters are upper-cased; plates that
\* differ only in letter case or whitespace share their barcode.
C8_InjectiveOnNormalizedPlate ==
    bcOut # <<>> =>
        /\ (bcIn.plate1 = bcIn.plate2 /\ bcIn.time1 = bcIn.time2) => bcOut[1] = bcOut[2]
        /\ (NormalizedPlate(bcIn.plate1) # NormalizedPlate(bcIn.plate2)
              \/ bcIn.time1 # bcIn.time2) => bcOut[1] # bcOut[2]
        /\ (NormalizedPlate(bcIn.plate1) = NormalizedPlate(bcIn.plate2)
              /\ bcIn.time1 = bcIn.time2) => bcOut[1] = bcOut[2]

\* Two different plate strings with one normal form and one entry time.
C8_Witness ==
    /\ bcOut # <<>>
    /\ bcIn.plate1 # bcIn.plate2
    /\ NormalizedPlate(bcIn.plate1) = NormalizedPlate(bcIn.plate2)
    /\ bcIn.time1 = bcIn.time2
    /\ bcOut[1] = bcOut[2]

(***************************************************************************)
(* Properties of POST /api/backup with requests served one at a time       *)
(* (Spec).                                                                 *)
(***************************************************************************)

SameKeyTwice(keys) ==
    \E i, j \in 1..Len(keys) : i < j /\ keys[i] # Undef /\ keys[i] = keys[j]

KeysOf(items, column) == [i \in 1..Len(items) |-> items[i][column]]

\* Some statement of the batch fails: a collection is missing, a row has no
\* value for a NOT NULL column, two rows share a primary key, or the body
\* has no settings.
BatchFails(body) ==
    \/ ~body.vehicles.iterable
    \/ ~body.permanentClients.iterable
    \/ ~body.dailyStats.iterable
    \/ ~body.settings.defined
    \/ \E i \in 1..Len(body.vehicles.items) :
          LET v == body.vehicles.items[i]
          IN  v.vehicleNumber = NoPlate \/ v.vehicleType = NoStr \/ v.entryTime = Undef
    \/ \E i \in 1..Len(body.permanentClients.items) :
          LET c == body.permanentClients.items[i]
          IN  c.name = NoStr \/ c.vehicleNumber = NoPlate \/ c.contact = NoStr
                \/ c.paymentStatus = NoStr \/ c.entryTime = Undef
    \/ \E i \in 1..Len(body.dailyStats.items) :
          LET d == body.dailyStats.items[i]
          IN  d.totalVehicles = Undef \/ d.totalRevenue = Undef
    \/ SameKeyTwice(KeysOf(body.vehicles.items, "id"))
    \/ SameKeyTwice(KeysOf(body.permanentClients.items, "id"))
    \/ SameKeyTwice(KeysOf(body.dailyStats.items, "date"))

\* C1: a backup request in which a statement of the batch fails is answered
\* with an error, and the store after it (vehicles, permanent clients, daily
\* stats, settings) is the store before it.
C1_FailedBackupLeavesStore ==
    bk.pc = "responded" =>
        /\ BatchFails(bk.body) => bk.status = 500
        /\ bk.status = 500 => bk.post = bk.pre

\* A backup that inserted a row and then failed, on a store that held rows.
C1_Witness ==
    /\ bk.pc = "responded"
    /\ bk.status = 500
    /\ bk.body.vehicles = Coll(<<RowG1, RowNoType>>)
    /\ bk.pre.vehicles # <<>>
    /\ bk.post = bk.pre

\* The tables and the settings record a snapshot describes.
SnapshotStore(body) ==
    [vehicles |-> [i \in 1..Len(body.vehicles.items) |->
                      LET v == body.vehicles.items[i]
                      IN  [id |-> v.id, vehicleNumber |-> v.vehicleNumber,
                           vehicleType |-> v.vehicleType, entryTime |-> v.entryTime,
                           exitTime |-> v.exitTime, fee |-> v.fee]],
     permanent_clients |-> body.permanentClients.items,
     daily_stats |-> [i \in 1..Len(body.dailyStats.items) |->
                         LET d == body.dailyStats.items[i]
                         IN  [date |-> d.date, totalVehicles |-> d.totalVehicles,
                              totalRevenue |-> d.totalRevenue]],
     settings |-> body.settings]

\* C9: after a successful backup request the store holds exactly the
\* snapshot's vehicles, permanent clients and daily stats, and the
\* snapshot's settings.
C9_SuccessfulBackupReplacesStore ==
    (bk.pc = "responded" /\ bk.status = 200) => bk.post = SnapshotStore(bk.body)

\* A successful backup over a store whose vehicle is not in the snapshot.
C9_Witness ==
    /\ bk.pc = "responded"
    /\ bk.status = 200
    /\ bk.body.vehicles.items # <<>>
    /\ \E i \in 1..Len(bk.pre.vehicles) :
          \A j \in 1..Len(bk.post.vehicles) : bk.post.vehicles[j] # bk.pre.vehicles[i]
    /\ bk.post.settings # bk.pre.settings

(***************************************************************************)
(* Properties of check-in and check-out.                                   *)
(***************************************************************************)
Range(f) == {f[i] : i \in DOMAIN f}

ParkedWithPlate(vs, plate) ==
    {v \in Range(vs) : v.exitTime = Undef /\ v.number # NoPlate
                         /\ toLowerCase(trim(v.number)) = toLowerCase(trim(plate))}

\* C2: a check-in whose plate equals, ignoring case, the plate of a record
\* that is parked in the vehicle list is rejected and creates no record, also
\* when it is issued before an earlier check-in has finished; the list never
\* holds two parked records with one plate.
C2_DuplicateCheckInRejected ==
    [][ /\ \A v \in Range(vehicles') \ Range(vehicles) :
              v.exitTime = Undef => ParkedWithPlate(vehicles, v.number) = {}
        /\ \A v \in Range(vehicles') :
              v.exitTime = Undef => Cardinality(ParkedWithPlate(vehicles', v.number)) <= 1
      ]_vars

\* C3: a check-out request for a record that is already exited is answered
\* with the not-found error, by PUT /vehicles/:id/exit and by the client,
\* which offers an exit receipt for parked records only.
C3_ExitedCheckoutRejected ==
    /\ (apiResp.op = "exit" /\ apiResp.wasExited) => apiResp.status = 404
    /\ exitReceiptData # NoReceipt => exitReceiptData.vehicle.exitTime = Undef

\* Every record of old that is exited is in new with the same exit time and fee.
ExitedFrozen(old, new) ==
    \A v \in Range(old) :
        v.exitTime # Undef =>
            \E w \in Range(new) : w.id = v.id /\ w.exitTime = v.exitTime /\ w.fee = v.fee

\* C4: once a record has its exit time and fee, no check-in or check-out
\* makes it parked again or changes its exit time or fee, in the server
\* store and in the client's vehicle list.
C4_ExitIsFinal ==
    [][ /\ (apiCalls' # apiCalls /\ apiResp'.op \in {"post", "exit"})
              => ExitedFrozen(store.vehicles, store'.vehicles)
        /\ ExitedFrozen(vehicles, vehicles')
      ]_vars

TimesConsistent(v) ==
    /\ v.exitTime # Undef => v.exitTime >= v.entryTime
    /\ v.fee # Undef => v.exitTime # Undef

\* C5: in the server store and in the client's vehicle list, a record with an
\* exit time has exitTime >= entryTime, and a record with a fee has an exit
\* time.
C5_ExitAfterEntryFeeOnlyWithExit ==
    /\ \A v \in Range(store.vehicles) : TimesConsistent(v)
    /\ \A v \in Range(vehicles) : TimesConsistent(v)

\* A step of the browser client's check-in or check-out, the server's
\* handling of its requests included, that leaves no transaction open.
ClientStep ==
    /\ apiCalls' = apiCalls
    /\ ~(bk.owner = ApiOwner /\ bk' # bk)
    /\ ~txn'.active

\* C10 (SpecConc): a record that another client checked in through
\* POST /vehicles, acknowledged and in the store, is still in the store,
\* unmodified, after every step of the browser client's check-ins and
\* check-outs.
C10_OtherClientsRecordsSurvive ==
    [][ (/\ ClientStep
         /\ apiResp.op = "post" /\ apiResp.status = 200
         /\ \/ apiResp.row \in Range(store.vehicles)
            \/ bk.pc = "deleted" /\ apiResp.row \in Range(bk.pre.vehicles))
           => apiResp.row \in Range(store'.vehicles)
      ]_vars

(***************************************************************************)
(* Properties of the page loads (SpecPage).                                *)
(***************************************************************************)
\* A step in which the pending loadData completes.
LoadDataStep ==
    /\ \E t \in tasks : t.kind = "load"
    /\ \A t \in tasks' : t.kind # "load"
    /\ page' = page

\* The records this client checked in and has not checked out, as its
\* local cache holds them.
CheckedInHere ==
    {ls.parking_vehicles[i] : i \in {j \in 1..Len(ls.parking_vehicles) :
        /\ ls.parking_vehicles[j].number # NoPlate
        /\ ls.parking_vehicles[j].exitTime = Undef}}

\* C11: a vehicle checked in on a client is still in that client's list,
\* parked, with the same plate and entry time, once the client has reloaded
\* and loaded its data again.
C11_CheckInSurvivesReload ==
    [][LoadDataStep =>
         \A v \in CheckedInHere :
            \E j \in 1..Len(vehicles') :
                /\ vehicles'[j].number = v.number
                /\ vehicles'[j].entryTime = v.entryTime
                /\ vehicles'[j].exitTime = Undef]_vars

(***************************************************************************)
(* Properties of the login check (SpecLogin).                              *)
(***************************************************************************)
\* The credential in force: the deployment-time override when one is
\* configured, otherwise the value of the settings record.
EffectiveUsername ==
    IF loginIn.envUsername # NoStr THEN loginIn.envUsername
    ELSE loginIn.settings.username
EffectivePassword ==
    IF loginIn.envPassword # NoStr THEN loginIn.envPassword
    ELSE loginIn.settings.password

Matches(attempt) ==
    attempt.username = EffectiveUsername /\ attempt.password = EffectivePassword

\* C12: POST /auth/login answers success exactly when the supplied user
\* name and password both equal the effective credentials.
C12_SuccessIffEffectiveCredentials ==
    loginOut # <<>> =>
        /\ (loginOut[1].server.success <=> Matches(loginIn.first))
        /\ (loginOut[2].server.success <=> Matches(loginIn.second))

\* C13: two failed attempts against the same credentials are answered with
\* the same status and the same message, whichever field was wrong: by the
\* server, and by the login page of the client.
C13_FailedLoginsIndistinguishable ==
    loginOut # <<>> =>
        /\ (~loginOut[1].server.success /\ ~loginOut[2].server.success)
              => loginOut[1].server = loginOut[2].server
        /\ (loginOut[1].page.title = "Login failed"
                /\ loginOut[2].page.title = "Login failed")
              => loginOut[1].page = loginOut[2].page

\* Answered: a wrong user name with the right password, and the right user
\* name with a wrong password.
C13_Witness ==
    /\ loginOut # <<>>
    /\ HasCredentials(loginIn.settings)
    /\ loginIn.first.username # EffectiveUsername
    /\ loginIn.first.password = EffectivePassword
    /\ loginIn.second.username = EffectiveUsername
    /\ loginIn.second.password # EffectivePassword
    /\ loginOut[1].server.status = 401
    /\ loginOut[2].server.status = 401

(***************************************************************************)
(* Properties of the by-id requests (SpecServer).                          *)
(***************************************************************************)
\* The request of this step names an id that no record of its table has.
UnknownIdRequest ==
    /\ apiCalls' = apiCalls + 1
    /\ apiResp'.op \in {"exit", "put-client", "delete-client"}
    /\ LET table == IF apiResp'.op = "exit" THEN store.vehicles
                    ELSE store.permanent_clients
       IN  \A i \in 1..Len(table) : table[i].id # apiResp'.id

\* C14: PUT /vehicles/:id/exit, PUT /permanent-clients/:id and
\* DELETE /permanent-clients/:id with an id that matches no stored record
\* answer 404 and leave every table of the store as it was.
C14_UnknownIdIsNotFound ==
    [][UnknownIdRequest => apiResp'.status = 404 /\ store' = store]_vars

\* A PUT /permanent-clients/:id with an unknown id was answered 404 on a
\* store that holds clients and vehicles.
C14_Witness ==
    /\ apiResp.status = 404
    /\ apiResp.op = "put-client"
    /\ apiResp.id = UnknownId
    /\ store.permanent_clients # <<>>
    /\ store.vehicles # <<>>

(***************************************************************************)
(* Properties of the check-out's exit write (SpecExit).                    *)
(***************************************************************************)
ExitTasks == {t \in tasks : t.kind = "exit"}

\* The PUT of this step is the second one of a check-out.
SecondPut(t) ==
    /\ t \in tasks /\ t.kind = "exit" /\ t.puts = 1
    /\ \E u \in tasks' : u.kind = "exit" /\ u.tid = t.tid /\ u.puts = 2

\* The check-out of task t has made its local update: the record is marked
\* exited in the list and in the cache, and the task has left the PUTs behind.
Completed(t) ==
    /\ \E u \in tasks' : u.kind = "exit" /\ u.tid = t.tid /\ u.pc = "sync"
    /\ ls'.parking_vehicles = vehicles'
    /\ \A i \in 1..Len(vehicles') :
          vehicles'[i].id = t.veh.id => vehicles'[i].exitTime # Undef

\* C20: one check-out makes at most two PUT /vehicles/:id/exit requests; the
\* second one is made only after the first has failed, not before the fixed
\* delay has passed since that failure, and whatever its answer the
\* check-out then completes without a third.
C20_AtMostOneRetry ==
    /\ [](\A t \in ExitTasks :
            /\ t.puts <= 2
            /\ t.pc = "put" => t.puts = 0
            /\ t.pc = "retry" => t.puts = 1)
    /\ [][\A t \in ExitTasks :
            /\ SecondPut(t) => /\ t.pc = "retry"
                               /\ now' >= t.retryAt
                               /\ t.retryAt >= RetryDelay
                               /\ Completed(t)
            /\ t.puts = 2 =>
                  \A u \in tasks' : (u.kind = "exit" /\ u.tid = t.tid) => u.puts = 2]_vars

\* A check-out whose first PUT failed has made its second one.
C20_Witness ==
    \E t \in ExitTasks : t.puts = 2 /\ t.pc = "sync" /\ now >= RetryDelay

(***************************************************************************)
(* Properties of the toggles (SpecToggles).                                *)
(***************************************************************************)
\* The operator accepted the yes/no prompt of this toggle and typed its phrase.
Accepted(toggle, phrase) ==
    dialog'.toggle = toggle /\ dialog'.confirmed /\ dialog'.input = phrase

\* C15: the auto-sync flag (the auto-restore flag) goes from disabled to
\* enabled only in a step in which the operator accepted the yes/no prompt
\* and typed SYNC (RESTORE); in every other step a disabled flag stays
\* disabled and no interval of a disabled loop is started.
C15_EnabledOnlyByDoubleConfirmation ==
    [][/\ (~IsTrue(ls.autoSync) /\ IsTrue(ls'.autoSync)) => Accepted("sync", "SYNC")
       /\ (~IsTrue(ls.autoRestore) /\ IsTrue(ls'.autoRestore))
             => Accepted("restore", "RESTORE")
       /\ (page.syncAt = Undef /\ page'.syncAt # Undef) => IsTrue(ls'.autoSync)
       /\ (page.restoreAt = Undef /\ page'.restoreAt # Undef)
             => IsTrue(ls'.autoRestore)
       /\ (~page.autoSync /\ page'.autoSync) => IsTrue(ls'.autoSync)
       /\ (~page.autoRestore /\ page'.autoRestore) => IsTrue(ls'.autoRestore)]_vars

\* Auto-restore was enabled by a full confirmation and its interval runs,
\* while auto-sync is disabled and has no interval.
C15_Witness ==
    /\ IsTrue(ls.autoRestore) /\ page.restoreAt # Undef
    /\ dialog = [toggle |-> "restore", confirmed |-> TRUE, input |-> "RESTORE"]
    /\ ~IsTrue(ls.autoSync) /\ page.syncAt = Undef
    /\ toast = "Auto Restore enabled"

(***************************************************************************)
(* Properties of the restore loops (SpecRestore).                          *)
(***************************************************************************)
Within15s(activity, t) ==
    activity # Undef /\ activity <= t /\ t - activity < ActivityWindow

\* The operator checked a vehicle in or out on this client within the 15
\* seconds before time t: a check-out records its time in localStorage, a
\* check-in is the entry time of a record this client created or is creating.
LocalActivityBefore(t) ==
    \/ Within15s(ls.last_user_activity, t)
    \/ \E i \in 1..Len(ls.parking_vehicles) :
          /\ ls.parking_vehicles[i].number # NoPlate
          /\ Within15s(ls.parking_vehicles[i].entryTime, t)
    \/ \E u \in tasks : u.kind = "entry" /\ Within15s(u.veh.entryTime, t)

\* This step ends a restore cycle by overwriting the cache and reloading.
Restores(t) ==
    /\ t \in tasks /\ t.kind = "restore" /\ t.pc = "apply"
    /\ page'.loads = page.loads + 1

\* C16: with auto-restore enabled, a restore tick that fires within 15
\* seconds after a local check-in or check-out does not overwrite the local
\* cache and does not reload the page.
C16_RecentActivitySuppressesRestore ==
    [][\A t \in tasks : Restores(t) => ~LocalActivityBefore(t.exitTime)]_vars

\* The four cache entries a restore writes.
CacheEntries(storage) ==
    <<storage.parking_vehicles, storage.parking_permanent_clients,
      storage.parking_settings, storage.parking_daily_stats>>

\* A tick of the poll: its timer moves on and the page stays.
PollTicks == page'.pollAt # page.pollAt /\ page'.loads = page.loads

\* A restore cycle begins in this step: its GETs are sent.
CycleStarts == \E u \in tasks' \ tasks : u.kind = "restore" /\ u.pc = "fetch"

\* C17: a restore tick that fires while auto-restore is disabled sends no
\* request and leaves the four cache entries as they were; the interval of
\* the toggles runs only while the flag is set, and no restore cycle begins
\* in a state in which the flag is not set.
C17_DisabledRestoreDoesNothing ==
    /\ [](page.restoreAt # Undef => IsTrue(ls.autoRestore))
    /\ [][/\ (PollTicks /\ ~IsTrue(ls.autoRestore))
                => (tasks' = tasks /\ CacheEntries(ls') = CacheEntries(ls))
          /\ CycleStarts => IsTrue(ls.autoRestore)]_vars

\* The poll has ticked on a page whose auto-restore was enabled and then
\* disabled again, with a vehicle in the cache: nothing was fetched.
C17_Witness ==
    /\ ls.autoRestore = "false"
    /\ page.pollAt > RestoreInterval
    /\ page.loads = 1
    /\ ls.parking_vehicles # <<>>
    /\ \A u \in tasks : u.kind # "restore"

\* The server has answered the push of a sync interval.
SyncPushed == bk.pc = "responded" /\ bk.owner = LoopTid

\* C18: when the push of a sync interval has been answered, the server's
\* vehicles, permanent clients, daily stats and settings are the ones of
\* the client's cache that the push carried.
C18_SyncPushReplacesStore ==
    SyncPushed => store = SnapshotStore(bk.body)

\* The cache and the store hold the same: a push would send what a restore
\* would fetch.
Settled == BackupBody(ls.parking_vehicles, ls) = Fresh(store)

\* C19: with auto-sync and auto-restore both enabled and no operator
\* mutation, there is an execution (the one SpecStomp follows) in which,
\* again and again, the push of the sync interval overwrites the store and a
\* restore overwrites the cache, and the two never stay equal.
C19_LoopsStompForEver ==
    /\ []<><<store' # store>>_vars
    /\ []<><<CacheEntries(ls') # CacheEntries(ls)>>_vars
    /\ []<>~Settled

\* Two exchanges have happened: the cache holds the empty settings the first
\* push left in the store, the store holds its first settings again, pushed
\* from the cache.
C19_Witness ==
    /\ IsTrue(ls.autoSync) /\ IsTrue(ls.autoRestore)
    /\ ls.parking_settings = EmptySettings
    /\ store.settings = DefaultSettings
    /\ bk.pc = "responded" /\ bk.owner = LoopTid /\ bk.status = 200
    /\ ops = 0
    /\ ~Settled


(***************************************************************************)
(* Properties of error reporting, daily stats and permanent clients.       *)
(***************************************************************************)
ErrorToasts ==
    {"Error: Please enter vehicle number", "Error: Failed to enter vehicle",
     "Error: Vehicle not found or already exited", "Duplicate Entry"}

\* The step in which the server write of a check-in or a check-out fails
\* for the last time: the POST of addVehicle, which is not retried, or the
\* second PUT of exitVehicle.
WriteGivenUp(t) ==
    /\ t \in tasks /\ t \notin tasks'
    /\ \/ t.kind = "entry" /\ t.pc = "post"
          /\ PostVehicle(store, t.veh, now).status # 200
       \/ t.kind = "exit" /\ t.pc = "retry"
          /\ PutExit(store, t.veh.id, t.fee, now').status # 200

\* C21: when the server write of a check-in or of a check-out has failed
\* and no retry is left, the operator is shown an error.
C21_FailedWriteIsReported ==
    [][\A t \in tasks : WriteGivenUp(t) => toast' \in ErrorToasts]_vars


\* The vehicles of a list that entered, and that exited, on a date.
EnteredOn(vs, d) == SelectSeq(vs, LAMBDA v : DayOf(v.entryTime) = d)
ExitedOn(vs, d) == SelectSeq(vs, LAMBDA v : v.exitTime # Undef /\ DayOf(v.exitTime) = d)

\* C22: the client's daily stats are the recomputation from its vehicle
\* list: one stat for each date on which a vehicle entered or exited and no
\* other, with the counts per class and the total of the vehicles that
\* entered on the date, the total being the sum of the three classes, and
\* as income the sum of the fees of the vehicles that exited on the date.
C22_StatsAreRecomputation ==
    /\ \A k \in 1..Len(dailyStats) :
          LET s == dailyStats[k]
              entered == EnteredOn(vehicles, s.date)
              exited == ExitedOn(vehicles, s.date)
          IN  /\ Len(entered) + Len(exited) > 0
              /\ s.totalCars = CountType(entered, "car")
              /\ s.totalBikes = CountType(entered, "bike")
              /\ s.totalRickshaws = CountType(entered, "rickshaw")
              /\ s.totalVehicles = Len(entered)
              /\ s.totalVehicles = s.totalCars + s.totalBikes + s.totalRickshaws
              /\ s.totalIncome = SumFees(exited)
    /\ \A i \in 1..Len(vehicles) :
          \E k \in 1..Len(dailyStats) : dailyStats[k].date = DayOf(vehicles[i].entryTime)
    /\ \A k, l \in 1..Len(dailyStats) : dailyStats[k].date = dailyStats[l].date => k = l


\* The records of a list other than those with an id.
Others(cs, id) == SelectSeq(cs, LAMBDA c : c.id # id)

\* A record apart from its payment status and payment date.
SansPayment(c) == [x \in DOMAIN c \ {"paymentStatus", "paymentDate"} |-> c[x]]

\* C23: toggling a client's payment status flips that status in the local
\* list at once and in the server store when the PUT is answered, and
\* changes nothing else: the client's other fields, the other clients, the
\* vehicles, the stats and the settings stay as they were.
C23_ToggleChangesOnlyPaymentStatus ==
    [][/\ \A i \in 1..Len(permanentClients) :
            (ops' = ops + 1 /\ toast' = "Payment status updated"
               /\ permanentClients'[i].paymentStatus # permanentClients[i].paymentStatus)
            => /\ Len(permanentClients') = Len(permanentClients)
               /\ permanentClients'[i].paymentStatus
                     = Flipped(permanentClients[i].paymentStatus)
               /\ SansPayment(permanentClients'[i]) = SansPayment(permanentClients[i])
               /\ Others(permanentClients', permanentClients[i].id)
                     = Others(permanentClients, permanentClients[i].id)
               /\ vehicles' = vehicles /\ dailyStats' = dailyStats
       /\ \A t \in tasks :
            (t.kind = "toggle" /\ t \notin tasks'
               /\ \E k \in 1..Len(store.permanent_clients) :
                     store.permanent_clients[k].id = t.clientId)
            => /\ Len(store'.permanent_clients) = Len(store.permanent_clients)
               /\ \A k \in 1..Len(store.permanent_clients) :
                     LET c == store.permanent_clients[k]
                         d == store'.permanent_clients[k]
                     IN  IF c.id = t.clientId
                         THEN /\ d.paymentStatus = t.updates.paymentStatus
                              /\ SansPayment(d) = SansPayment(c)
                         ELSE d = c
               /\ store'.vehicles = store.vehicles
               /\ store'.daily_stats = store.daily_stats
               /\ store'.settings = store.settings]_vars


(***************************************************************************)
(* Properties of the barcode check-out.                                    *)
(***************************************************************************)
BarcodeOf(v) == generateBarcode(v.number, v.entryTime)

\* C24: a scan selects a vehicle only if the vehicle is parked and its
\* regenerated barcode is the scanned string (trimmed, in upper case), the
\* exit the scan's timer begins is the exit of a vehicle with that barcode,
\* and a scan that is rejected prepares no exit.
C24_BarcodeExitOnlyOnEqualBarcode ==
    [][/\ \A s \in tasks' \ tasks :
            s.kind = "scan" =>
               /\ s.veh.exitTime = Undef
               /\ BarcodeOf(s.veh) = s.scanned
               /\ exitReceiptData'.vehicle = s.veh
       /\ \A s \in tasks \ tasks' :
            s.kind = "scan" =>
               \A t \in tasks' \ tasks :
                  t.kind = "exit" => BarcodeOf(t.veh) = s.scanned
       /\ (toast' # toast /\ toast' = "Error: Invalid barcode or vehicle already exited")
            => exitReceiptData' = exitReceiptData /\ tasks' = tasks]_vars


(***************************************************************************)
(* Properties of concurrent requests and overlapping client operations.    *)
(***************************************************************************)
SubmittedStores ==
    {SnapshotStore(bk.body)} \cup {SnapshotStore(bk.others[i]) : i \in 1..Len(bk.others)}

\* C25: after two concurrent POST /backup requests the server store is one
\* of the two submitted snapshots in whole, or the store from before them,
\* and the request that fails changes nothing the other request has done.
C25_ConcurrentBackupsDoNotMix ==
    /\ []((bk.pc = "responded" /\ bk.others # <<>>)
             => store \in SubmittedStores \cup {bk.pre})
    /\ [][bk'.others # bk.others => store' = store]_vars


\* What list `after` keeps of list `before`: every record, and every exit.
Keeps(before, after) ==
    \A i \in 1..Len(before) :
       \E j \in 1..Len(after) :
          /\ after[j].id = before[i].id
          /\ after[j].number = before[i].number
          /\ before[i].exitTime # Undef => after[j].exitTime # Undef

\* C26: a check-in or check-out that completes keeps what the operations
\* completed before it have put in the vehicle list and in the local cache,
\* also when it began before they completed.
C26_OverlappingOperationsBothTakeEffect ==
    [][/\ Keeps(vehicles, vehicles')
       /\ Keeps(ls.parking_vehicles, ls'.parking_vehicles)]_vars


(***************************************************************************)
(* Properties of a restore cycle taken request by request.                 *)
(***************************************************************************)
\* C27: the four resources a restore cycle writes to the cache are the four
\* resources of one server store among those its GETs have read.
C27_RestoreReadsOneServerState ==
    \A t \in tasks :
       (t.kind = "restore" /\ t.pc = "apply")
          => \E i \in 1..Len(Seen(t)) : t.body = Fresh(Seen(t)[i])


Fetching(t) == t.kind = "restore" /\ t.pc \in RestoreGets
Reloaded == page'.loads # page.loads

\* C28: when one of the four GETs of a restore cycle fails, the cycle ends
\* at that step with the four cache entries as they were and the page not
\* reloaded; the cache is written and the page reloaded only by a cycle
\* whose four GETs were all answered.
C28_FailedFetchWritesNothing ==
    [][/\ \A t \in tasks :
            (Fetching(t) /\ AfterFailedGet(t) \in tasks' \ tasks)
               => /\ CacheEntries(ls') = CacheEntries(ls)
                  /\ ~Reloaded
                  /\ \A u \in tasks' : u.kind = "restore" => u \in tasks \/ u.pc = "failed"
       /\ (CacheEntries(ls') # CacheEntries(ls) \/ Reloaded)
            => \E t \in tasks : /\ t.kind = "restore" /\ t.pc = "apply"
                                /\ Len(Seen(t)) = 4]_vars

\* A cycle has ended in its catch block while the server holds other data
\* than the cache, and the cache and the page are as before.
C28_Witness ==
    /\ \E t \in tasks : t.kind = "restore" /\ t.pc = "failed"
    /\ ~(\E t \in tasks : Fetching(t) \/ t.pc = "apply")
    /\ store.vehicles # <<>>
    /\ ls.parking_vehicles = <<>>
    /\ page.loads = 1


(***************************************************************************)
(* Properties of identifiers and of the backup round trip.                 *)
(***************************************************************************)
DistinctIds(rows) ==
    \A i, j \in 1..Len(rows) : rows[i].id = rows[j].id => i = j

\* C29: the vehicle rows of the server store have pairwise distinct ids,
\* and so have the records of the client's vehicle list.
C29_VehicleIdsAreDistinct ==
    DistinctIds(store.vehicles) /\ DistinctIds(vehicles)


\* C30: the snapshot of GET /backup/download, posted to POST /backup while
\* the store is still the one it was taken from, is answered 200 and leaves
\* the store as it was.
C30_DownloadThenRestoreIsIdentity ==
    (bk.pc = "responded" /\ bk.owner = FileTid /\ bk.body = backupData(bk.pre))
       => bk.status = 200 /\ bk.post = bk.pre

=============================================================================
